---- MODULE Spec2Model ----
(***************************************************************************)
(* A model of the AI-SOC Lite detection pipeline (src/backend):            *)
(*   feature_engineering.extract_features, rules.apply_rules,              *)
(*   main.calculate_risk_score, anomaly_detection.AnomalyDetector,         *)
(*   main.ingest_log / train_model / get_incident_report and               *)
(*   llm_reporter.generate_incident_report.                                *)
(*                                                                         *)
(* Representation of Python values                                         *)
(*   str       a tuple of one-character strings, <<"a","d","m","i","n">>,  *)
(*             so that lower() and the substring tests are computed;       *)
(*   float     an integer in a fixed unit that makes the code's arithmetic *)
(*             exact: anomaly scores in 1/10000, risk scores in 1/200,     *)
(*             sine and cosine in 1/1000 (rounded);                        *)
(*   dict      feature vectors are ordered: a sequence of <<key, value>>   *)
(*             pairs; log entries and metadata are functions on their keys *)
(*             (their key order is never read);                            *)
(*   any value a tagged record, [t |-> "str", s |-> ...], [t |-> "none"],  *)
(*             [t |-> "int", i |-> ...], [t |-> "datetime", d |-> ...],    *)
(*             [t |-> "dict", m |-> ...].                                  *)
(***************************************************************************)
EXTENDS Integers, Sequences, FiniteSets, TLC

VARIABLES
    call,       \* the last call of a pure function: its name, arguments, result
    prev,       \* the call before it
    logs,       \* the processed_logs table: the stored rows, in id order
    detector,   \* the AnomalyDetector instance: model (a heap reference), feature_names
    heap,       \* the IsolationForest objects created so far, by reference
    response,   \* the last HTTP response of the backend
    pc,         \* per thread: the statement of train / predict it is at
    frame,      \* per thread: the locals of its running call
    files,      \* the model files save_model wrote: filepath -> the pickled forest
    agent,      \* the collection agent: its position, LAST_EVENT_RECORD_ID, locals
    eventlog,   \* per Windows event log: the record numbers it holds
    posted      \* the events the agent has posted to /ingest-log, in order

vars == <<call, prev, logs, detector, heap, response, pc, frame,
          files, agent, eventlog, posted>>

\* no model file, no agent running, nothing logged or posted
Elsewhere ==
    /\ files = <<>>
    /\ agent = [pc |-> "off"]
    /\ eventlog = <<>>
    /\ posted = <<>>

(***************************************************************************)
(* Python strings                                                          *)
(***************************************************************************)
UpperLetters ==
    <<"A","B","C","D","E","F","G","H","I","J","K","L","M",
      "N","O","P","Q","R","S","T","U","V","W","X","Y","Z">>

LowerLetters ==
    <<"a","b","c","d","e","f","g","h","i","j","k","l","m",
      "n","o","p","q","r","s","t","u","v","w","x","y","z">>

LowerChar(c) ==
    IF \E i \in 1..Len(UpperLetters) : UpperLetters[i] = c
    THEN LowerLetters[CHOOSE i \in 1..Len(UpperLetters) : UpperLetters[i] = c]
    ELSE c

\* str.lower()
Lower(s) == [i \in 1..Len(s) |-> LowerChar(s[i])]

\* sub in s
Contains(s, sub) ==
    \E i \in 0..(Len(s) - Len(sub)) : SubSeq(s, i + 1, i + Len(sub)) = sub

PyStr(s)  == [t |-> "str", s |-> s]
PyNone    == [t |-> "none"]
PyInt(i)  == [t |-> "int", i |-> i]
PyDict(m) == [t |-> "dict", m |-> m]
PyDateTime(y, mo, d, h, mi) ==
    [t |-> "datetime", d |-> [year |-> y, month |-> mo, day |-> d, hour |-> h, minute |-> mi]]

EmptyDict == [k \in {} |-> PyNone]

\* dict.get(key, default) on a dict given as a function on its keys
MapGet(m, k, default) == IF k \in DOMAIN m THEN m[k] ELSE default

(***************************************************************************)
(* Ordered dicts (feature vectors): sequences of <<key, value>>            *)
(***************************************************************************)
Keys(d) == [i \in 1..Len(d) |-> d[i][1]]

HasKey(d, k) == \E i \in 1..Len(d) : d[i][1] = k

\* d.get(k, default)
Get(d, k, default) ==
    IF HasKey(d, k) THEN d[CHOOSE i \in 1..Len(d) : d[i][1] = k][2] ELSE default

\* d[k] = v : an existing key keeps its place, a new key goes last
Put(d, k, v) ==
    IF HasKey(d, k)
    THEN [i \in 1..Len(d) |-> IF d[i][1] = k THEN <<k, v>> ELSE d[i]]
    ELSE Append(d, <<k, v>>)

(***************************************************************************)
(* datetime                                                                *)
(***************************************************************************)
IsLeap(y) == (y % 4 = 0 /\ y % 100 # 0) \/ y % 400 = 0

DaysInMonth(y, m) ==
    CASE m \in {1, 3, 5, 7, 8, 10, 12} -> 31
      [] m \in {4, 6, 9, 11}           -> 30
      [] OTHER                          -> IF IsLeap(y) THEN 29 ELSE 28

MonthTable == <<0, 3, 2, 5, 0, 3, 5, 1, 4, 6, 2, 4>>

\* datetime.weekday(): Monday is 0, Sunday is 6
Weekday(d) ==
    LET y   == IF d.month < 3 THEN d.year - 1 ELSE d.year
        dow == (y + (y \div 4) - (y \div 100) + (y \div 400)
                  + MonthTable[d.month] + d.day) % 7    \* Sunday is 0
    IN  (dow + 6) % 7

Digits == <<"0","1","2","3","4","5","6","7","8","9">>

IsDigit(c) == \E i \in 1..10 : Digits[i] = c

DigitVal(c) == (CHOOSE i \in 1..10 : Digits[i] = c) - 1

RECURSIVE Number(_)
Number(s) == IF s = <<>> THEN 0
             ELSE 10 * Number(SubSeq(s, 1, Len(s) - 1)) + DigitVal(s[Len(s)])

AllDigits(s, positions) == \A i \in positions : IsDigit(s[i])

\* datetime.datetime.fromisoformat(s) for the forms YYYY-MM-DD, YYYY-MM-DDTHH:MM
\* and YYYY-MM-DDTHH:MM:SS (any one separator character between date and time);
\* [ok |-> FALSE] stands for ValueError.
fromisoformat(s) ==
    LET n       == Len(s)
        dateOk  == /\ n \in {10, 16, 19}
                   /\ AllDigits(s, {1, 2, 3, 4, 6, 7, 9, 10})
                   /\ s[5] = "-" /\ s[8] = "-"
        timeOk  == \/ n = 10
                   \/ /\ n \in {16, 19}
                      /\ AllDigits(s, {12, 13, 15, 16}) /\ s[14] = ":"
                      /\ n = 19 => (AllDigits(s, {18, 19}) /\ s[17] = ":")
        y       == Number(SubSeq(s, 1, 4))
        mo      == Number(SubSeq(s, 6, 7))
        dd      == Number(SubSeq(s, 9, 10))
        h       == IF n = 10 THEN 0 ELSE Number(SubSeq(s, 12, 13))
        mi      == IF n = 10 THEN 0 ELSE Number(SubSeq(s, 15, 16))
        sec     == IF n = 19 THEN Number(SubSeq(s, 18, 19)) ELSE 0
    IN  IF /\ dateOk /\ timeOk
           /\ y >= 1 /\ mo \in 1..12 /\ dd \in 1..DaysInMonth(y, mo)
           /\ h \in 0..23 /\ mi \in 0..59 /\ sec \in 0..59
        THEN [ok |-> TRUE,
              d  |-> [year |-> y, month |-> mo, day |-> dd, hour |-> h, minute |-> mi]]
        ELSE [ok |-> FALSE]

\* 1000 * sin(2*pi*q/96), rounded, for the quarter hours q = 0..95 of a day
SineTable ==
    <<0, 65, 131, 195, 259, 321, 383, 442, 500, 556, 609, 659, 707, 752, 793, 831,
      866, 897, 924, 947, 966, 981, 991, 998, 1000, 998, 991, 981, 966, 947, 924, 897,
      866, 831, 793, 752, 707, 659, 609, 556, 500, 442, 383, 321, 259, 195, 131, 65,
      0, -65, -131, -195, -259, -321, -383, -442, -500, -556, -609, -659, -707, -752,
      -793, -831, -866, -897, -924, -947, -966, -981, -991, -998, -1000, -998, -991,
      -981, -966, -947, -924, -897, -866, -831, -793, -752, -707, -659, -609, -556,
      -500, -442, -383, -321, -259, -195, -131, -65>>

\* math.sin((hour + minute/60) / 24 * 2*pi), in 1/1000; the minute is a multiple
\* of 15 in every timestamp the model draws
time_of_day_sin(hour, minute) == SineTable[(4 * hour + minute \div 15) + 1]

\* math.cos of the same angle: the sine a quarter turn (24 quarter hours) later
time_of_day_cos(hour, minute) == SineTable[((4 * hour + minute \div 15 + 24) % 96) + 1]

(***************************************************************************)
(* feature_engineering.extract_features                                    *)
(***************************************************************************)
DEFAULT_FEATURES ==
    << <<"login_hour", 0>>, <<"day_of_week", 0>>, <<"is_weekend", 0>>,
       <<"time_of_day_sin", 0>>, <<"time_of_day_cos", 0>>,
       <<"is_admin_account", 0>>, <<"failed_login_count_5min", 0>>,
       <<"device_familiarity_score", 0>>, <<"is_vpn_source", 0>>,
       <<"geo_location_risk_score", 0>>, <<"event_type_authentication", 0>>,
       <<"event_type_file_access", 0>>, <<"event_type_process_exec", 0>>,
       <<"event_type_privilege_escalation", 0>> >>

Returned(v) == [raised |-> FALSE, value |-> v]
Raised(e)   == [raised |-> TRUE, exc |-> e]

s_admin      == <<"a","d","m","i","n">>
s_root       == <<"r","o","o","t">>
s_vpn        == <<"v","p","n">>
s_auth       == <<"a","u","t","h">>
s_file       == <<"f","i","l","e">>
s_process    == <<"p","r","o","c","e","s","s">>
s_exec       == <<"e","x","e","c">>
s_privilege  == <<"p","r","i","v","i","l","e","g","e">>
s_escalation == <<"e","s","c","a","l","a","t","i","o","n">>

\* the time features with the weekend starting on Sunday
WeekendFromSunday(features, log_entry, now) ==
    LET given     == MapGet(log_entry, "timestamp", PyNone)
        parsed    == IF given.t = "str" THEN fromisoformat(given.s) ELSE [ok |-> FALSE]
        timestamp == IF given.t = "str"
                     THEN (IF parsed.ok THEN [t |-> "datetime", d |-> parsed.d] ELSE now)
                     ELSE given
    IN  IF timestamp.t = "datetime"
        THEN LET d  == timestamp.d
                 f1 == Put(features, "login_hour", d.hour)
                 f2 == Put(f1, "day_of_week", Weekday(d))
                 f3 == Put(f2, "is_weekend", IF Weekday(d) >= 6 THEN 1 ELSE 0)
                 f4 == Put(f3, "time_of_day_sin", time_of_day_sin(d.hour, d.minute))
             IN  Put(f4, "time_of_day_cos", time_of_day_cos(d.hour, d.minute))
        ELSE features

\* Lines 37-54: the timestamp a string parses to (now when it does not parse),
\* then the time features when the value is a datetime.
TimeFeatures(features, log_entry, now) ==
    LET given     == MapGet(log_entry, "timestamp", PyNone)
        parsed    == IF given.t = "str" THEN fromisoformat(given.s) ELSE [ok |-> FALSE]
        timestamp == IF given.t = "str"
                     THEN (IF parsed.ok THEN [t |-> "datetime", d |-> parsed.d] ELSE now)
                     ELSE given
    IN  IF timestamp.t = "datetime"
        THEN LET d  == timestamp.d
                 f1 == Put(features, "login_hour", d.hour)
                 f2 == Put(f1, "day_of_week", Weekday(d))
                 f3 == Put(f2, "is_weekend", IF Weekday(d) >= 5 THEN 1 ELSE 0)
                 f4 == Put(f3, "time_of_day_sin", time_of_day_sin(d.hour, d.minute))
             IN  Put(f4, "time_of_day_cos", time_of_day_cos(d.hour, d.minute))
        ELSE features

\* Lines 68-76: the event-class flags
EventTypeFeatures(features, event_type) ==
    LET f1 == IF Contains(event_type, s_auth)
              THEN Put(features, "event_type_authentication", 1) ELSE features
        f2 == IF Contains(event_type, s_file)
              THEN Put(f1, "event_type_file_access", 1) ELSE f1
        f3 == IF Contains(event_type, s_process) \/ Contains(event_type, s_exec)
              THEN Put(f2, "event_type_process_exec", 1) ELSE f2
    IN  IF Contains(event_type, s_privilege) \/ Contains(event_type, s_escalation)
        THEN Put(f3, "event_type_privilege_escalation", 1) ELSE f3

\* extract_features(log_entry), called at wall-clock time now.
\* x.get(...) on a value that is no dict, and x.lower() on a value that is no
\* str, raise AttributeError.
extract_features(log_entry, now) ==
    LET f0       == TimeFeatures(DEFAULT_FEATURES, log_entry, now)
        metadata == MapGet(log_entry, "metadata", PyDict(EmptyDict))
    IN  IF metadata.t # "dict" THEN Raised("AttributeError")
        ELSE
        LET user == MapGet(metadata.m, "user", PyStr(<<>>))
        IN  IF user.t # "str" THEN Raised("AttributeError")
            ELSE
            LET u      == Lower(user.s)
                f1     == Put(f0, "is_admin_account",
                              IF u = s_admin \/ Contains(u, s_root) THEN 1 ELSE 0)
                source == MapGet(log_entry, "source", PyStr(<<>>))
            IN  IF source.t # "str" THEN Raised("AttributeError")
                ELSE
                LET f2 == Put(f1, "is_vpn_source",
                              IF Contains(Lower(source.s), s_vpn) THEN 1 ELSE 0)
                    event_type == MapGet(log_entry, "event_type", PyStr(<<>>))
                IN  IF event_type.t # "str" THEN Raised("AttributeError")
                    ELSE Returned(EventTypeFeatures(f2, Lower(event_type.s)))

(***************************************************************************)
(* rules.py                                                                *)
(***************************************************************************)
\* list(range(a, b)), read only by "in" and "not in"
Range(a, b) == a..(b - 1)

Cond(f, op, v) == [feature |-> f, operator |-> op, value |-> v]

\* the rule names, as Python strings
n_admin_outside_hours ==
    <<"A","d","m","i","n"," ","L","o","g","i","n"," ","O","u","t","s","i","d","e"," ","B","u","s","i","n","e","s","s"," ","H","o","u","r","s">>

n_admin_weekend ==
    <<"A","d","m","i","n"," ","L","o","g","i","n"," ","o","n"," ","W","e","e","k","e","n","d">>

n_unusual_hour ==
    <<"U","n","u","s","u","a","l"," ","L","o","g","i","n"," ","H","o","u","r"," ","(","N","o","n","-","A","d","m","i","n",")">>

n_process_weekend ==
    <<"P","r","o","c","e","s","s"," ","E","x","e","c","u","t","i","o","n"," ","b","y"," ","A","d","m","i","n"," ","o","n"," ","W","e","e","k","e","n","d">>

\* a table whose unusual-hour rule does not look at the account
UnusualHourForAnyAccount ==
    << [name        |-> n_admin_outside_hours,
        conditions  |-> << Cond("is_admin_account", "==", 1),
                           Cond("login_hour", "not_in", Range(8, 18)),
                           Cond("is_weekend", "==", 0) >>,
        severity    |-> "High",
        description |-> "An administrative account logged in outside typical 8 AM - 5 PM business hours on a weekday."],
       [name        |-> n_admin_weekend,
        conditions  |-> << Cond("is_admin_account", "==", 1),
                           Cond("is_weekend", "==", 1) >>,
        severity    |-> "Critical",
        description |-> "An administrative account logged in during the weekend."],
       [name        |-> n_unusual_hour,
        conditions  |-> << Cond("login_hour", "not_in", Range(7, 20)),
                           Cond("is_weekend", "==", 0) >>,
        severity    |-> "Medium",
        description |-> "A non-administrative account logged in outside typical 7 AM - 7 PM business hours on a weekday."],
       [name        |-> n_process_weekend,
        conditions  |-> << Cond("is_admin_account", "==", 1),
                           Cond("event_type_process_exec", "==", 1),
                           Cond("is_weekend", "==", 1) >>,
        severity    |-> "High",
        description |-> "An administrative account executed a process during the weekend."] >>

DETECTION_RULES ==
    << [name        |-> n_admin_outside_hours,
        conditions  |-> << Cond("is_admin_account", "==", 1),
                           Cond("login_hour", "not_in", Range(8, 18)),
                           Cond("is_weekend", "==", 0) >>,
        severity    |-> "High",
        description |-> "An administrative account logged in outside typical 8 AM - 5 PM business hours on a weekday."],
       [name        |-> n_admin_weekend,
        conditions  |-> << Cond("is_admin_account", "==", 1),
                           Cond("is_weekend", "==", 1) >>,
        severity    |-> "Critical",
        description |-> "An administrative account logged in during the weekend."],
       [name        |-> n_unusual_hour,
        conditions  |-> << Cond("is_admin_account", "==", 0),
                           Cond("login_hour", "not_in", Range(7, 20)),
                           Cond("is_weekend", "==", 0) >>,
        severity    |-> "Medium",
        description |-> "A non-administrative account logged in outside typical 7 AM - 7 PM business hours on a weekday."],
       [name        |-> n_process_weekend,
        conditions  |-> << Cond("is_admin_account", "==", 1),
                           Cond("event_type_process_exec", "==", 1),
                           Cond("is_weekend", "==", 1) >>,
        severity    |-> "High",
        description |-> "An administrative account executed a process during the weekend."] >>

\* a table that scores Critical as Medium
CriticalAsMedium(severity) ==
    CASE severity = "Low"      -> 20
      [] severity = "Medium"   -> 50
      [] severity = "High"     -> 80
      [] severity = "Critical" -> 50
      [] OTHER                 -> 0

\* SEVERITY_SCORES.get(severity, 0)
SEVERITY_SCORES(severity) ==
    CASE severity = "Low"      -> 20
      [] severity = "Medium"   -> 50
      [] severity = "High"     -> 80
      [] severity = "Critical" -> 100
      [] OTHER                 -> 0

\* Lines 76-114: one condition against the features; FALSE is "match = False; break".
\* features.get(feature) is None for a missing feature.
ConditionHolds(features, condition) ==
    IF ~HasKey(features, condition.feature) THEN FALSE
    ELSE LET feature_value == Get(features, condition.feature, 0)
             operator      == condition.operator
             value         == condition.value
         IN  CASE operator = "=="     -> ~(feature_value # value)
               [] operator = "!="     -> ~(feature_value = value)
               [] operator = ">"      -> feature_value > value
               [] operator = "<"      -> feature_value < value
               [] operator = "in"     -> ~(feature_value \notin value)
               [] operator = "not_in" -> ~(feature_value \in value)
               [] OTHER               -> FALSE     \* unknown operator: no match

\* Lines 74-114: the loop over one rule's conditions, in list order, leaving at
\* the first condition that fails
RECURSIVE RuleMatches(_, _)
\* a match decided by the first condition of the list alone
FirstConditionDecides(conditions, features) ==
    conditions = <<>> \/ ConditionHolds(features, Head(conditions))

RuleMatches(conditions, features) ==
    IF conditions = <<>> THEN TRUE
    ELSE IF ~ConditionHolds(features, Head(conditions)) THEN FALSE
    ELSE RuleMatches(Tail(conditions), features)

MatchedRule(rule) ==
    [name        |-> rule.name,
     severity    |-> rule.severity,
     description |-> rule.description,
     score       |-> SEVERITY_SCORES(rule.severity)]

\* Lines 72-123: the loop over the configured rules, in configuration order
RECURSIVE evaluate_rules(_, _)
evaluate_rules(rules, features) ==
    IF rules = <<>> THEN <<>>
    ELSE (IF RuleMatches(Head(rules).conditions, features)
          THEN <<MatchedRule(Head(rules))>> ELSE <<>>)
         \o evaluate_rules(Tail(rules), features)

\* an engine that stops at the first rule that matches
FirstMatchOnly(features) ==
    LET matched_rules == evaluate_rules(DETECTION_RULES, features)
    IN  IF matched_rules = <<>> THEN <<>> ELSE <<Head(matched_rules)>>

apply_rules(features) == evaluate_rules(DETECTION_RULES, features)

(***************************************************************************)
(* main.calculate_risk_score                                               *)
(*   anomaly_score in 1/10000; the result in 1/200, the unit in which      *)
(*   scaled_anomaly_score * 0.6 and max_rule_score * 0.4 are both whole.   *)
(***************************************************************************)
Max(a, b) == IF a >= b THEN a ELSE b
Min(a, b) == IF a <= b THEN a ELSE b

\* max(rule["score"] for rule in matched_rules)
RECURSIVE SumOfScores(_)
\* the scores of the matched rules added up
SumOfScores(matched_rules) ==
    IF matched_rules = <<>> THEN 0
    ELSE Head(matched_rules).score + SumOfScores(Tail(matched_rules))

MaxScore(matched_rules) ==
    CHOOSE m \in {matched_rules[i].score : i \in 1..Len(matched_rules)} :
        \A i \in 1..Len(matched_rules) : matched_rules[i].score <= m

\* a fusion that weighs the rule score 0.6 as well
HeavyRules(anomaly_score, matched_rules) ==
    LET clamped_anomaly_score == Max(-6000, Min(6000, anomaly_score))
        max_rule_score        == IF matched_rules # <<>>
                                 THEN MaxScore(matched_rules) ELSE 0
    IN  Max(0, Min(20000, (6000 - clamped_anomaly_score) + 120 * max_rule_score))

\* a fusion whose anomaly part rises with the anomaly score
RisingWithScore(anomaly_score, matched_rules) ==
    Max(0, Min(20000, 6000 + Max(-6000, Min(6000, anomaly_score))
                       + 80 * (IF matched_rules # <<>> THEN MaxScore(matched_rules) ELSE 0)))

calculate_risk_score(anomaly_score, matched_rules) ==
    LET clamped_anomaly_score   == Max(-6000, Min(6000, anomaly_score))  \* 1/10000
        normalized_anomaly_risk == 6000 - clamped_anomaly_score          \* 1/12000
        scaled_anomaly_score    == normalized_anomaly_risk               \* 1/120
        max_rule_score          == IF matched_rules # <<>>
                                   THEN MaxScore(matched_rules) ELSE 0
        geo_risk_modifier       == 0
        \* scaled * 0.6 is n/200; max_rule_score * 0.4 is 80 * max_rule_score / 200
        final_risk_score        == scaled_anomaly_score + 80 * max_rule_score
                                   + 200 * geo_risk_modifier
    IN  Max(0, Min(20000, final_risk_score))

(***************************************************************************)
(* anomaly_detection.AnomalyDetector                                       *)
(*                                                                         *)
(* sklearn's IsolationForest is a library: what the model keeps of it is   *)
(* its documented interface.  score_samples(X) is a value in [-1, 0), the  *)
(* lower the more anomalous, fixed for a fitted forest and a row X; which  *)
(* value is the forest's business, so it is drawn from RawScores when a    *)
(* row is first scored and remembered in the object (scores).  fit sets    *)
(* offset_ to the 100 * contamination percentile of the training rows'     *)
(* score_samples, and decision_function(X) is score_samples(X) - offset_.  *)
(* decision_function raises NotFittedError on a forest that was not fitted *)
(* and ValueError on a row of another width than the training rows.        *)
(* Raw scores are in 1/100, offset_ and decision_function in 1/10000.      *)
(***************************************************************************)
\* AnomalyDetector(contamination=0.01), in percent
ContaminationPct == 1

\* the values score_samples may take, in 1/100
RawScores == {-90, -43, -40}

\* a value of a Dict[str, Any] that does not convert to a float (a str)
NotNumeric == -1000000

IsNumeric(v) == v # NotNumeric

\* pd.DataFrame(features_data).columns: the keys in order of first appearance
RECURSIVE Columns(_)
Columns(features_data) ==
    IF features_data = <<>> THEN <<>>
    ELSE LET before == Columns(SubSeq(features_data, 1, Len(features_data) - 1))
             keys   == Keys(features_data[Len(features_data)])
         IN  before \o SelectSeq(keys, LAMBDA k : \A i \in 1..Len(before) : before[i] # k)

\* pd.DataFrame(features_data): a cell whose row lacks the column is NaN, which
\* is kept as NotNumeric; no batch of the model has such a row
DataFrame(features_data) ==
    LET columns == Columns(features_data)
    IN  [columns |-> columns,
         rows    |-> [i \in 1..Len(features_data) |->
                        [j \in 1..Len(columns) |->
                            Get(features_data[i], columns[j], NotNumeric)]]]

\* IsolationForest(contamination=..., random_state=...): not fitted
NewForest ==
    [fitted |-> FALSE, columns |-> <<>>, offset_ |-> 0,
     scores |-> [x \in {} |-> 0], rows |-> <<>>]

\* a forest no reference is left to: Python has freed it
Freed == [fitted |-> FALSE, freed |-> TRUE]

\* the heap once self.model is bound to a new object: the forest it referred
\* to before has no other reference
Release(hp) == [i \in 1..Len(hp) |-> Freed]

\* the k-th smallest (k = 0, 1, ...) of a sequence of numbers
KthSmallest(xs, k) ==
    CHOOSE v \in {xs[i] : i \in 1..Len(xs)} :
        /\ Cardinality({i \in 1..Len(xs) : xs[i] < v}) <= k
        /\ Cardinality({i \in 1..Len(xs) : xs[i] <= v}) > k

\* np.percentile(xs, pct), linear interpolation, of numbers in 1/100; in 1/10000
Percentile(xs, pct) ==
    LET pos  == (Len(xs) - 1) * pct           \* position in the sorted xs, in 1/100
        k    == pos \div 100
        frac == pos % 100
        lo   == KthSmallest(xs, k)
    IN  IF frac = 0 THEN 100 * lo
        ELSE 100 * lo + frac * (KthSmallest(xs, k + 1) - lo)

\* fit raises ValueError on a cell that is no number
FitRaises(df) ==
    \E i \in 1..Len(df.rows) : \E j \in 1..Len(df.columns) : ~IsNumeric(df.rows[i][j])

RowSet(df) == {df.rows[i] : i \in 1..Len(df.rows)}

\* IsolationForest.fit(df) where it does not raise; raw gives the training rows'
\* score_samples
Fit(df, raw) ==
    [fitted  |-> TRUE,
     columns |-> df.columns,
     offset_ |-> Percentile([i \in 1..Len(df.rows) |-> raw[df.rows[i]]], ContaminationPct),
     scores  |-> raw,
     rows    |-> df.rows]

\* the score_samples a fitted forest may give row X: the one it gave before
ScoresFor(forest, X) ==
    IF X \in DOMAIN forest.scores THEN {forest.scores[X]} ELSE RawScores

\* IsolationForest.decision_function(X), raw being score_samples(X)
decision_function(forest, X, raw) ==
    IF ~forest.fitted THEN Raised("NotFittedError")
    ELSE IF Len(X) # Len(forest.columns) THEN Raised("ValueError")
    ELSE Returned(100 * raw - forest.offset_)

\* the forest after it scored X
Remember(forest, X, raw) ==
    IF forest.fitted /\ Len(X) = Len(forest.columns)
    THEN [forest EXCEPT !.scores = (X :> raw) @@ forest.scores]
    ELSE forest

\* the values of new_features in its own key order, cut or filled with 0 to
\* the length of the schema
InputOrder(new_features, feature_names) ==
    [j \in 1..Len(feature_names) |->
        IF j <= Len(new_features) THEN new_features[j][2] ELSE 0]

\* [new_features.get(f_name, 0) for f_name in self.feature_names]
FeatureVector(new_features, feature_names) ==
    [j \in 1..Len(feature_names) |-> Get(new_features, feature_names[j], 0)]

(***************************************************************************)
(* Threads calling train and predict on one shared AnomalyDetector.        *)
(* The class holds no lock: a call is a sequence of statements, each read  *)
(* or write of self.model and self.feature_names being one step.  The      *)
(* statements that touch only locals are taken with the step before them.  *)
(***************************************************************************)
NumThreads == 2
MaxModels  == 2

Threads == 1..NumThreads

NoFrame == [op |-> "none"]

\* the feature dicts the callers pass
v_weekday == << <<"login_hour", 9>>, <<"is_weekend", 0>> >>
v_night   == << <<"login_hour", 3>>, <<"is_weekend", 1>> >>
v_admin   == << <<"is_weekend", 1>>, <<"login_hour", 3>>, <<"is_admin_account", 1>> >>
v_text    == << <<"login_hour", NotNumeric>>, <<"is_weekend", 0>> >>

TrainBatches == { <<>>, <<v_weekday, v_night>>, <<v_admin>>, <<v_text>> }

PredictVectors == { v_weekday, v_admin }

InFlight == Cardinality({t \in Threads : pc[t] \in {"train_38", "train_41"}})

\* train(features_data), lines 30-35: the empty check and the DataFrame
Train_Call(t, features_data) ==
    /\ pc[t] = "idle"
    /\ features_data # <<>> => Len(heap) + InFlight < MaxModels
    /\ IF features_data = <<>>
       THEN /\ pc' = [pc EXCEPT ![t] = "done"]
            /\ frame' = [frame EXCEPT ![t] =
                   [op |-> "train", features_data |-> features_data,
                    result |-> Returned("None")]]
       ELSE /\ pc' = [pc EXCEPT ![t] = "train_38"]
            /\ frame' = [frame EXCEPT ![t] =
                   [op |-> "train", features_data |-> features_data,
                    df |-> DataFrame(features_data)]]
    /\ UNCHANGED <<call, prev, logs, detector, heap, response>>
    /\ UNCHANGED <<files, agent, eventlog, posted>>

\* line 38: self.feature_names = df.columns.tolist()
Train_SetFeatureNames(t) ==
    /\ pc[t] = "train_38"
    /\ detector' = [detector EXCEPT !.feature_names = frame[t].df.columns]
    /\ pc' = [pc EXCEPT ![t] = "train_41"]
    /\ UNCHANGED <<call, prev, logs, heap, response, frame>>
    /\ UNCHANGED <<files, agent, eventlog, posted>>

\* line 41: self.model = IsolationForest(...)
Train_NewModel(t) ==
    /\ pc[t] = "train_41"
    /\ heap' = Append(Release(heap), NewForest)
    /\ detector' = [detector EXCEPT !.model = Len(heap) + 1]
    /\ pc' = [pc EXCEPT ![t] = "train_48"]
    /\ UNCHANGED <<call, prev, logs, response, frame>>
    /\ UNCHANGED <<files, agent, eventlog, posted>>

\* line 48: self.model.fit(df), on the object self.model refers to now
Train_Fit(t) ==
    /\ pc[t] = "train_48"
    /\ LET df == frame[t].df
       IN  IF FitRaises(df)
           THEN /\ heap' = heap
                /\ frame' = [frame EXCEPT ![t] =
                       [op |-> "train", features_data |-> frame[t].features_data,
                        result |-> Raised("ValueError")]]
           ELSE /\ \E raw \in [RowSet(df) -> RawScores] :
                       heap' = [heap EXCEPT ![detector.model] = Fit(df, raw)]
                /\ frame' = [frame EXCEPT ![t] =
                       [op |-> "train", features_data |-> frame[t].features_data,
                        result |-> Returned("None")]]
    /\ pc' = [pc EXCEPT ![t] = "done"]
    /\ UNCHANGED <<call, prev, logs, detector, response>>
    /\ UNCHANGED <<files, agent, eventlog, posted>>

\* predict(new_features), lines 63-65: the untrained case returns 0.0
Predict_Call(t, new_features) ==
    /\ pc[t] = "idle"
    /\ IF detector.model = 0
       THEN /\ pc' = [pc EXCEPT ![t] = "done"]
            /\ frame' = [frame EXCEPT ![t] =
                   [op |-> "predict", new_features |-> new_features,
                    result |-> Returned(0)]]
       ELSE /\ pc' = [pc EXCEPT ![t] = "predict_70"]
            /\ frame' = [frame EXCEPT ![t] =
                   [op |-> "predict", new_features |-> new_features]]
    /\ UNCHANGED <<call, prev, logs, detector, heap, response>>
    /\ UNCHANGED <<files, agent, eventlog, posted>>

\* line 70: the feature vector, in the order of self.feature_names
Predict_FeatureVector(t) ==
    /\ pc[t] = "predict_70"
    /\ frame' = [frame EXCEPT ![t] =
           [op |-> "predict", new_features |-> frame[t].new_features,
            feature_names |-> detector.feature_names,
            X |-> FeatureVector(frame[t].new_features, detector.feature_names)]]
    /\ pc' = [pc EXCEPT ![t] = "predict_78"]
    /\ UNCHANGED <<call, prev, logs, detector, heap, response>>
    /\ UNCHANGED <<files, agent, eventlog, posted>>

\* line 78: self.model.decision_function(X)[0], on the object self.model refers
\* to now.  The frame keeps what the call saw: the forest and its state then.
Predict_DecisionFunction(t) ==
    /\ pc[t] = "predict_78"
    /\ LET forest == heap[detector.model]
           X      == frame[t].X
       IN  \E raw \in ScoresFor(forest, X) :
               /\ heap' = [heap EXCEPT ![detector.model] = Remember(forest, X, raw)]
               /\ frame' = [frame EXCEPT ![t] =
                      [op |-> "predict", new_features |-> frame[t].new_features,
                       feature_names |-> frame[t].feature_names,
                       X |-> X, model |-> detector.model, saw |-> forest,
                       result |-> decision_function(forest, X, raw)]]
    /\ pc' = [pc EXCEPT ![t] = "done"]
    /\ UNCHANGED <<call, prev, logs, detector, response>>
    /\ UNCHANGED <<files, agent, eventlog, posted>>

\* the call returns (or its exception reaches the caller)
Return(t) ==
    /\ pc[t] = "done"
    /\ pc' = [pc EXCEPT ![t] = "idle"]
    /\ frame' = [frame EXCEPT ![t] = NoFrame]
    /\ UNCHANGED <<call, prev, logs, detector, heap, response>>
    /\ UNCHANGED <<files, agent, eventlog, posted>>

NoCall     == [op |-> "none"]
NoResponse == [kind |-> "none"]

InitDetector ==
    /\ call = NoCall /\ prev = NoCall
    /\ logs = <<>>
    /\ detector = [model |-> 0, feature_names |-> <<>>]
    /\ heap = <<>>
    /\ response = NoResponse
    /\ pc = [t \in Threads |-> "idle"]
    /\ frame = [t \in Threads |-> NoFrame]
    /\ Elsewhere

NextDetector ==
    \E t \in Threads :
        \/ \E features_data \in TrainBatches : Train_Call(t, features_data)
        \/ Train_SetFeatureNames(t)
        \/ Train_NewModel(t)
        \/ Train_Fit(t)
        \/ \E new_features \in PredictVectors : Predict_Call(t, new_features)
        \/ Predict_FeatureVector(t)
        \/ Predict_DecisionFunction(t)
        \/ Return(t)

SpecDetector == InitDetector /\ [][NextDetector]_vars

(***************************************************************************)
(* llm_reporter.generate_incident_report                                   *)
(*   incident_data is ProcessedLog.__dict__: a dict on the column names.   *)
(*   The fixed texts (prevention strategy, MITRE mapping) and the number   *)
(*   formatting are left out; a sentence is kept as the values it names.   *)
(***************************************************************************)
s_unknown_source == <<"U","n","k","n","o","w","n"," ","s","o","u","r","c","e",".">>
s_unknown_event_type == <<"U","n","k","n","o","w","n"," ","e","v","e","n","t"," ","t","y","p","e",".">>

AnyRuleNamed(matched_rules, word) ==
    \E i \in 1..Len(matched_rules) : Contains(Lower(matched_rules[i].name), word)

\* lines 37-44, risk_score in 1/200
severity_level(risk_score) ==
    IF 6200 <= risk_score /\ risk_score <= 12000 THEN "Medium"
    ELSE IF 12200 <= risk_score /\ risk_score <= 16000 THEN "High"
    ELSE IF 16200 <= risk_score /\ risk_score <= 20000 THEN "Critical"
    ELSE "Low"

\* the keywords looked up in another order: process, then admin, then file
ProcessFirst(matched_rules) ==
    IF AnyRuleNamed(matched_rules, s_process) THEN "Execution Attempt"
    ELSE IF AnyRuleNamed(matched_rules, s_admin) THEN "Privilege Misuse / Unauthorized Access"
    ELSE IF AnyRuleNamed(matched_rules, s_file) THEN "Data Exfiltration / Unauthorized Access"
    ELSE "Unusual Activity"

\* lines 58-64
possible_attack_type(matched_rules) ==
    IF AnyRuleNamed(matched_rules, s_admin) THEN "Privilege Misuse / Unauthorized Access"
    ELSE IF AnyRuleNamed(matched_rules, s_process) THEN "Execution Attempt"
    ELSE IF AnyRuleNamed(matched_rules, s_file) THEN "Data Exfiltration / Unauthorized Access"
    ELSE "Unusual Activity"

generate_incident_report(incident_data) ==
    LET incident_id   == MapGet(incident_data, "id", "N/A")
        raw_log       == MapGet(incident_data, "raw_log", EmptyDict)
        raw_message   == MapGet(raw_log, "message", "No message provided.")
        source        == MapGet(raw_log, "source", s_unknown_source)
        event_type    == MapGet(raw_log, "event_type", s_unknown_event_type)
        risk_score    == MapGet(incident_data, "final_risk_score", 0)
        ml_anomaly    == MapGet(incident_data, "is_anomaly_ml", FALSE)
        matched_rules == MapGet(incident_data, "matched_rules", <<>>)
        processed_at  == MapGet(incident_data, "processed_at", "N/A")
        severity      == severity_level(risk_score)
    IN  [IncidentID      |-> incident_id,
         Timestamp       |-> processed_at,
         SeverityLevel   |-> severity,
         FinalRiskScore  |-> risk_score,
         Summary         |-> [incident_id |-> incident_id, severity_level |-> severity,
                              source |-> source, event_type |-> event_type],
         AffectedSystems |-> source,
         PossibleAttackType |-> possible_attack_type(matched_rules),
         DetailedExplanation |->
             [raw_message |-> raw_message,
              ml_flagged  |-> ml_anomaly,
              rule_names  |-> [i \in 1..Len(matched_rules) |-> matched_rules[i].name]],
         ExecutiveSummary |-> [severity_level |-> severity, event_type |-> event_type,
                               source |-> source, risk_score |-> risk_score]]

(***************************************************************************)
(* main.py: the HTTP handlers.  Each is an async def without an await, so  *)
(* the event loop runs it to its end before it starts another: a handler   *)
(* is one step.                                                            *)
(***************************************************************************)
MaxLogs == 2
MaxTrainings == 1

\* the request bodies, as pydantic's LogEntry hands them on: timestamp a
\* datetime, source, event_type and message strings, metadata a dict of anything
Entry(ts, source, event_type, metadata) ==
    [timestamp |-> ts, source |-> PyStr(source), event_type |-> PyStr(event_type),
     message |-> PyStr(<<"m","s","g">>), metadata |-> PyDict(metadata)]

User(u) == [k \in {"user"} |-> u]

s_Admin          == <<"A","d","m","i","n">>
s_alice          == <<"a","l","i","c","e">>
s_root_ops       == <<"r","o","o","t","_","o","p","s">>
s_VPN_gw         == <<"V","P","N","-","g","w">>
s_srv_01         == <<"s","r","v","-","0","1">>
s_Authentication == <<"A","u","t","h","e","n","t","i","c","a","t","i","o","n">>
s_process_exec   == <<"p","r","o","c","e","s","s","_","e","x","e","c">>

LogEntries ==
    { Entry(PyDateTime(2024, 1, 6, 10, 0), s_VPN_gw, s_Authentication, User(PyStr(s_Admin))),
      Entry(PyDateTime(2024, 1, 9, 9, 0), s_srv_01, s_Authentication, User(PyStr(s_alice))),
      Entry(PyDateTime(2024, 1, 9, 3, 30), s_srv_01, s_process_exec, User(PyStr(s_root_ops))),
      Entry(PyDateTime(2024, 1, 9, 9, 0), s_srv_01, s_Authentication, User(PyNone)) }

\* datetime.datetime.now() while the backend runs
Clock == { PyDateTime(2024, 1, 10, 12, 0) }

InternalServerError == [kind |-> "error", status |-> 500]

\* AnomalyDetector.predict(new_features) run to its end; raw is score_samples
predict(det, hp, new_features, raw) ==
    IF det.model = 0 THEN Returned(0)
    ELSE decision_function(hp[det.model],
                           FeatureVector(new_features, det.feature_names), raw)

\* bool(anomaly_detector.model): None is false; a forest is its __len__, the
\* number of its estimators_, which a forest that was not fitted does not have
ModelTruth(det, hp) ==
    IF det.model = 0 THEN Returned(FALSE)
    ELSE IF ~hp[det.model].fitted THEN Raised("AttributeError")
    ELSE Returned(TRUE)

\* an overall flag that needs both signals
BothSignals(is_anomaly_ml, is_anomaly_rule) == is_anomaly_ml /\ is_anomaly_rule

\* line 132
is_anomaly(is_anomaly_ml, is_anomaly_rule) == is_anomaly_ml \/ is_anomaly_rule

\* the row ingest_log stores, lines 111-149
ProcessedLog(id, log_entry, features, anomaly_score, is_anomaly_ml, now) ==
    LET matched_rules    == apply_rules(features)
        is_anomaly_rule  == matched_rules # <<>>
        final_risk_score == calculate_risk_score(anomaly_score, matched_rules)
    IN  [id               |-> id,
         raw_timestamp    |-> log_entry.timestamp.d,
         raw_source       |-> log_entry.source.s,
         raw_event_type   |-> log_entry.event_type.s,
         raw_message      |-> log_entry.message.s,
         raw_metadata     |-> log_entry.metadata.m,
         features         |-> features,
         anomaly_score_ml |-> anomaly_score,
         is_anomaly_ml    |-> is_anomaly_ml,
         matched_rules    |-> matched_rules,
         is_anomaly_rule  |-> is_anomaly_rule,
         final_risk_score |-> final_risk_score,
         is_anomaly       |-> is_anomaly(is_anomaly_ml, is_anomaly_rule),
         processed_at     |-> now.d]

IngestResponse(row) ==
    [kind |-> "ingest", status |-> 200, log_id |-> row.id,
     anomaly_score_ml |-> row.anomaly_score_ml, is_anomaly_ml |-> row.is_anomaly_ml,
     matched_rules |-> row.matched_rules, is_anomaly_rule |-> row.is_anomaly_rule,
     final_risk_score |-> row.final_risk_score, is_anomaly |-> row.is_anomaly]

\* POST /ingest-log
ingest_log(log_entry) ==
    /\ Len(logs) < MaxLogs
    /\ \E now \in Clock :
       LET extracted == extract_features(log_entry, now)
           truth     == ModelTruth(detector, heap)
       IN  IF extracted.raised \/ truth.raised
           THEN /\ response' = InternalServerError
                /\ UNCHANGED <<logs, heap>>
           ELSE IF ~truth.value
           THEN LET row == ProcessedLog(Len(logs) + 1, log_entry, extracted.value,
                                        0, FALSE, now)
                IN  /\ logs' = Append(logs, row)
                    /\ response' = IngestResponse(row)
                    /\ heap' = heap
           ELSE LET forest == heap[detector.model]
                    X      == FeatureVector(extracted.value, detector.feature_names)
                IN  \E raw \in ScoresFor(forest, X) :
                    LET scored == predict(detector, heap, extracted.value, raw)
                    IN  IF scored.raised
                        THEN /\ response' = InternalServerError
                             /\ UNCHANGED <<logs, heap>>
                        ELSE LET row == ProcessedLog(Len(logs) + 1, log_entry,
                                            extracted.value, scored.value,
                                            scored.value < forest.offset_, now)
                             IN  /\ logs' = Append(logs, row)
                                 /\ response' = IngestResponse(row)
                                 /\ heap' = [heap EXCEPT ![detector.model] =
                                                Remember(forest, X, raw)]
    /\ UNCHANGED <<call, prev, detector, pc, frame>>
    /\ UNCHANGED <<files, agent, eventlog, posted>>

\* a training that flags the stored rows anew
TrainReflagsRows ==
    /\ Len(heap) < MaxTrainings
    /\ logs # <<>>
    /\ LET df == DataFrame([i \in 1..Len(logs) |-> logs[i].features])
       IN  /\ detector' = [model |-> Len(heap) + 1, feature_names |-> df.columns]
           /\ \E raw \in [RowSet(df) -> RawScores] :
                  heap' = Append(Release(heap), Fit(df, raw))
    /\ logs' = [i \in 1..Len(logs) |-> [logs[i] EXCEPT !.is_anomaly_ml = TRUE]]
    /\ response' = [kind |-> "trained", status |-> 200, samples |-> Len(logs)]
    /\ UNCHANGED <<call, prev, pc, frame>>
    /\ UNCHANGED <<files, agent, eventlog, posted>>

\* POST /train-model: AnomalyDetector.train on the features of every row
train_model ==
    /\ Len(heap) < MaxTrainings
    /\ IF logs = <<>>
       THEN /\ response' = [kind |-> "error", status |-> 400]
            /\ UNCHANGED <<detector, heap>>
       ELSE LET all_features == [i \in 1..Len(logs) |-> logs[i].features]
                df           == DataFrame(all_features)
            IN  /\ detector' = [model |-> Len(heap) + 1, feature_names |-> df.columns]
                /\ IF FitRaises(df)
                   THEN /\ heap' = Append(Release(heap), NewForest)
                        /\ response' = InternalServerError
                   ELSE /\ \E raw \in [RowSet(df) -> RawScores] :
                               heap' = Append(Release(heap), Fit(df, raw))
                        /\ response' = [kind |-> "trained", status |-> 200,
                                        samples |-> Len(all_features)]
    /\ UNCHANGED <<call, prev, logs, pc, frame>>
    /\ UNCHANGED <<files, agent, eventlog, posted>>

\* the tier under which GET /risk-dashboard-summary counts a row, lines 220-223
DashboardTier(final_risk_score) ==
    IF final_risk_score >= 0 /\ final_risk_score <= 6000 THEN "Low"
    ELSE IF final_risk_score > 6000 /\ final_risk_score <= 12000 THEN "Medium"
    ELSE IF final_risk_score > 12000 /\ final_risk_score <= 16000 THEN "High"
    ELSE IF final_risk_score > 16000 /\ final_risk_score <= 20000 THEN "Critical"
    ELSE "none"

\* GET /risk-dashboard-summary (the average risk score is left out)
get_risk_dashboard_summary ==
    /\ response' =
          IF logs = <<>>
          THEN [kind |-> "dashboard", status |-> 200, total_logs |-> 0,
                total_anomalies |-> 0,
                risk_distribution |-> [tier \in {"Low", "Medium", "High", "Critical"} |-> 0]]
          ELSE [kind |-> "dashboard", status |-> 200, total_logs |-> Len(logs),
                total_anomalies |-> Cardinality({i \in 1..Len(logs) : logs[i].is_anomaly}),
                risk_distribution |->
                    [tier \in {"Low", "Medium", "High", "Critical"} |->
                        Cardinality({i \in 1..Len(logs) :
                            DashboardTier(logs[i].final_risk_score) = tier})]]
    /\ UNCHANGED <<call, prev, logs, detector, heap, pc, frame>>
    /\ UNCHANGED <<files, agent, eventlog, posted>>

\* a report endpoint that does not look at the anomaly flag
ReportAnyRow(log_id) ==
    /\ response' =
          IF log_id \notin 1..Len(logs) THEN [kind |-> "error", status |-> 404]
          ELSE [kind |-> "report", status |-> 200, log_id |-> log_id,
                report |-> generate_incident_report(logs[log_id])]
    /\ UNCHANGED <<call, prev, logs, detector, heap, pc, frame>>
    /\ UNCHANGED <<files, agent, eventlog, posted>>

\* GET /generate-incident-report/{log_id}
get_incident_report(log_id) ==
    /\ response' =
          IF log_id \notin 1..Len(logs) THEN [kind |-> "error", status |-> 404]
          ELSE IF ~logs[log_id].is_anomaly THEN [kind |-> "error", status |-> 400]
          ELSE [kind |-> "report", status |-> 200, log_id |-> log_id,
                report |-> generate_incident_report(logs[log_id])]
    /\ UNCHANGED <<call, prev, logs, detector, heap, pc, frame>>
    /\ UNCHANGED <<files, agent, eventlog, posted>>

Init ==
    /\ call = NoCall /\ prev = NoCall
    /\ logs = <<>>
    /\ detector = [model |-> 0, feature_names |-> <<>>]
    /\ heap = <<>>
    /\ response = NoResponse
    /\ pc = [t \in Threads |-> "idle"]
    /\ frame = [t \in Threads |-> NoFrame]
    /\ Elsewhere

Next ==
    \/ \E log_entry \in LogEntries : ingest_log(log_entry)
    \/ train_model
    \/ get_risk_dashboard_summary
    \/ \E log_id \in 1..(MaxLogs + 1) : get_incident_report(log_id)

Spec == Init /\ [][Next]_vars

(***************************************************************************)
(* The pure functions, called on their own: call holds the last call (its  *)
(* arguments and its result), prev the call before it where two calls are  *)
(* compared.                                                               *)
(***************************************************************************)
Absent == [t |-> "absent"]

\* a dict on the keys whose value is given
DictOf(keys, value) == [k \in {x \in keys : value[x] # Absent} |-> value[k]]

s_file_access == <<"f","i","l","e","_","a","c","c","e","s","s">>
s_iso_saturday == <<"2","0","2","4","-","0","1","-","0","6","T","1","0",":","0","0",":","0","0">>
s_iso_tuesday  == <<"2","0","2","4","-","0","1","-","0","9","T","0","3",":","3","0">>
s_iso_date     == <<"2","0","2","4","-","0","1","-","0","7">>
s_iso_month13  == <<"2","0","2","4","-","1","3","-","4","5","T","1","0",":","0","0",":","0","0">>
s_not_a_date   == <<"n","o","t","-","a","-","d","a","t","e">>

TimestampValues ==
    { Absent, PyNone, PyInt(1704535200),
      PyDateTime(2024, 1, 6, 10, 0), PyDateTime(2024, 1, 9, 3, 30),
      PyStr(s_iso_saturday), PyStr(s_iso_tuesday), PyStr(s_iso_date),
      PyStr(s_iso_month13), PyStr(s_not_a_date) }

MetadataValues ==
    { Absent, PyNone, PyDict(EmptyDict),
      PyDict(User(PyStr(s_Admin))), PyDict(User(PyStr(s_root_ops))),
      PyDict(User(PyStr(s_alice))), PyDict(User(PyNone)), PyDict(User(PyInt(0))) }

SourceValues == { Absent, PyNone, PyStr(s_VPN_gw), PyStr(s_srv_01) }

EventTypeValues ==
    { Absent, PyNone, PyStr(s_Authentication), PyStr(s_process_exec), PyStr(s_file_access) }

\* datetime.datetime.now() at the time of the call
Nows == { PyDateTime(2024, 1, 10, 12, 0), PyDateTime(2024, 1, 14, 23, 45) }

RawEvent(ts, metadata, source, event_type) ==
    DictOf({"timestamp", "metadata", "source", "event_type", "message"},
           [timestamp |-> ts, metadata |-> metadata, source |-> source,
            event_type |-> event_type, message |-> PyStr(<<"m","s","g">>)])

\* the result of a call that has not run yet
Pending == [pending |-> TRUE]

\* every variable but call as the service starts
IdleBut(calls) ==
    /\ call \in calls
    /\ prev = NoCall
    /\ logs = <<>>
    /\ detector = [model |-> 0, feature_names |-> <<>>]
    /\ heap = <<>>
    /\ response = NoResponse
    /\ pc = [t \in Threads |-> "idle"]
    /\ frame = [t \in Threads |-> NoFrame]
    /\ Elsewhere

InitExtract ==
    IdleBut({ [op |-> "extract_features",
               log_entry |-> RawEvent(ts, metadata, source, event_type),
               now |-> now, done |-> FALSE, result |-> Pending] :
                 ts \in TimestampValues, metadata \in MetadataValues,
                 source \in SourceValues, event_type \in EventTypeValues,
                 now \in Nows })

Call_extract_features ==
    /\ call.op = "extract_features"
    /\ ~call.done
    /\ call' = [call EXCEPT !.done = TRUE,
                          !.result = extract_features(call.log_entry, call.now)]
    /\ UNCHANGED <<prev, logs, detector, heap, response, pc, frame>>
    /\ UNCHANGED <<files, agent, eventlog, posted>>

NextExtract == Call_extract_features

SpecExtract == InitExtract /\ [][NextExtract]_vars

\* --- extract_features called twice --------------------------------------------
\* a datetime on another day, at the hour and minute of s_iso_saturday
OtherTimestamps == TimestampValues \cup { PyDateTime(2024, 1, 9, 10, 0) }

\* the same record handed to extract_features again, at another wall-clock time
Call_extract_features_later ==
    /\ call.op = "extract_features" /\ call.done /\ prev = NoCall
    /\ \E now \in Nows \ {call.now} :
          call' = [call EXCEPT !.now = now,
                               !.result = extract_features(call.log_entry, now)]
    /\ prev' = call
    /\ UNCHANGED <<logs, detector, heap, response, pc, frame>>
    /\ UNCHANGED <<files, agent, eventlog, posted>>

\* another record, equal to the first but for its timestamp, handed to
\* extract_features
Call_extract_features_other ==
    /\ call.op = "extract_features" /\ call.done /\ prev = NoCall
    /\ \E ts \in (OtherTimestamps \ {Absent}), now \in Nows :
          LET log_entry == [k \in DOMAIN call.log_entry \cup {"timestamp"} |->
                               IF k = "timestamp" THEN ts ELSE call.log_entry[k]]
          IN  call' = [call EXCEPT !.log_entry = log_entry, !.now = now,
                                   !.result = extract_features(log_entry, now)]
    /\ prev' = call
    /\ UNCHANGED <<logs, detector, heap, response, pc, frame>>
    /\ UNCHANGED <<files, agent, eventlog, posted>>

NextRepeat ==
    \/ Call_extract_features
    \/ Call_extract_features_later
    \/ Call_extract_features_other

SpecRepeat == InitExtract /\ [][NextRepeat]_vars

\* --- rules.apply_rules ---------------------------------------------------
MaxConditions == 3

\* feature vectors: the fields the rules read, each also absent
Without(d, k) == SelectSeq(d, LAMBDA kv : kv[1] # k)

RuleVector(admin, weekend, hour, exec, absent) ==
    Without(Put(Put(Put(Put(DEFAULT_FEATURES, "is_admin_account", admin),
                        "is_weekend", weekend), "login_hour", hour),
                "event_type_process_exec", exec), absent)

RuleVectors ==
    { RuleVector(admin, weekend, hour, exec, absent) :
        admin \in {0, 1}, weekend \in {0, 1}, hour \in 0..23, exec \in {0, 1},
        absent \in {"none", "is_admin_account", "is_weekend", "login_hour",
                    "event_type_process_exec"} }

Call_apply_rules ==
    /\ call.op = "apply_rules"
    /\ ~call.done
    /\ call' = [call EXCEPT !.done = TRUE, !.result = apply_rules(call.features)]
    /\ UNCHANGED <<prev, logs, detector, heap, response, pc, frame>>
    /\ UNCHANGED <<files, agent, eventlog, posted>>

\* conditions a configured rule may hold: every operator, a feature no vector
\* has, and an operator the engine does not know
ConditionPool ==
    << Cond("is_admin_account", "==", 1),
       Cond("login_hour", "not_in", Range(8, 18)),
       Cond("is_weekend", "!=", 1),
       Cond("login_hour", ">", 17),
       Cond("login_hour", "<", 8),
       Cond("day_of_week", "in", {5, 6}),
       Cond("no_such_feature", "==", 1),
       Cond("is_admin_account", ">=", 1) >>

TestRule(conditions) ==
    [name |-> <<"t">>, conditions |-> conditions, severity |-> "High",
     description |-> "a configured rule"]

ConditionVectors ==
    { RuleVector(admin, weekend, hour, 0, "none") :
        admin \in {0, 1}, weekend \in {0, 1}, hour \in {3, 9, 19} }

\* the lists of up to MaxConditions distinct conditions, each condition given
\* by its place in the pool
ConditionLists ==
    UNION { {ix \in [1..n -> 1..Len(ConditionPool)] :
                \A i, j \in 1..n : i # j => ix[i] # ix[j]} :
            n \in 1..MaxConditions }

Conditions(ix) == [i \in 1..Len(ix) |-> ConditionPool[ix[i]]]

InitRules ==
    IdleBut({ [op |-> "apply_rules", features |-> features, done |-> FALSE, result |-> Pending] :
                features \in RuleVectors }
            \cup
            { [op |-> "evaluate_rules", conditions |-> conditions,
               features |-> features, done |-> FALSE, result |-> Pending] :
                conditions \in ConditionLists, features \in ConditionVectors })

\* apply_rules with DETECTION_RULES holding one rule of the given conditions
Call_evaluate_rules ==
    /\ call.op = "evaluate_rules"
    /\ ~call.done
    /\ call' = [call EXCEPT !.done = TRUE, !.result =
                    evaluate_rules(<<TestRule(Conditions(call.conditions))>>, call.features)]
    /\ UNCHANGED <<prev, logs, detector, heap, response, pc, frame>>
    /\ UNCHANGED <<files, agent, eventlog, posted>>

\* the same vector against the same rule with its conditions in another order
Call_evaluate_permuted(p) ==
    /\ call.op = "evaluate_rules"
    /\ call.done
    /\ prev = NoCall
    /\ LET conditions == [i \in 1..Len(call.conditions) |-> call.conditions[p[i]]]
       IN  call' = [call EXCEPT !.conditions = conditions,
                                !.result = evaluate_rules(<<TestRule(Conditions(conditions))>>,
                                                          call.features)]
    /\ prev' = call
    /\ UNCHANGED <<logs, detector, heap, response, pc, frame>>
    /\ UNCHANGED <<files, agent, eventlog, posted>>

NextRules ==
    \/ Call_apply_rules
    \/ Call_evaluate_rules
    \/ /\ call.op = "evaluate_rules"
       /\ \E p \in Permutations(1..Len(call.conditions)) : Call_evaluate_permuted(p)

SpecRules == InitRules /\ [][NextRules]_vars

\* --- main.calculate_risk_score -------------------------------------------
MaxMatched == 2

\* anomaly scores, in 1/10000: inside, on and beyond the clamp bounds
AnomalyScores == {-10000, -6001, -6000, -2100, -300, 0, 300, 3900, 6000, 6001, 10000}

Severities == {"Low", "Medium", "High", "Critical"}

Matched(severity) ==
    [name |-> <<"r">>, severity |-> severity, description |-> "a matched rule",
     score |-> SEVERITY_SCORES(severity)]

Call_calculate_risk_score(anomaly_score, matched_rules) ==
    /\ call' = [op |-> "calculate_risk_score", anomaly_score |-> anomaly_score,
                matched_rules |-> matched_rules,
                result |-> calculate_risk_score(anomaly_score, matched_rules)]
    /\ prev' = call
    /\ UNCHANGED <<logs, detector, heap, response, pc, frame>>
    /\ UNCHANGED <<files, agent, eventlog, posted>>

\* a first call on no rule, then calls that change one argument: another
\* anomaly score, or one more matched rule
NextFuse ==
    \/ /\ call = NoCall
       /\ \E anomaly_score \in AnomalyScores : Call_calculate_risk_score(anomaly_score, <<>>)
    \/ /\ call.op = "calculate_risk_score"
       /\ \E anomaly_score \in AnomalyScores :
              Call_calculate_risk_score(anomaly_score, call.matched_rules)
    \/ /\ call.op = "calculate_risk_score"
       /\ Len(call.matched_rules) < MaxMatched
       /\ \E severity \in Severities :
              Call_calculate_risk_score(call.anomaly_score,
                                        Append(call.matched_rules, Matched(severity)))

SpecFuse == Init /\ [][NextFuse]_vars

\* --- AnomalyDetector.train and predict, one call at a time -----------------
\* a vector with a field no training batch has, and without is_weekend
v_vpn == << <<"is_vpn_source", 1>>, <<"login_hour", 9>> >>

ScoreVectors == { v_weekday, v_admin, v_vpn }

\* train(features_data) run to its end, lines 30-49
Call_train(features_data) ==
    /\ Len(heap) < MaxModels
    /\ IF features_data = <<>>
       THEN /\ UNCHANGED <<detector, heap>>
            /\ call' = [op |-> "train", features_data |-> features_data,
                        result |-> Returned("None")]
       ELSE LET df == DataFrame(features_data)
            IN  /\ detector' = [model |-> Len(heap) + 1, feature_names |-> df.columns]
                /\ IF FitRaises(df)
                   THEN /\ heap' = Append(Release(heap), NewForest)
                        /\ call' = [op |-> "train", features_data |-> features_data,
                                    result |-> Raised("ValueError")]
                   ELSE /\ \E raw \in [RowSet(df) -> RawScores] :
                               heap' = Append(Release(heap), Fit(df, raw))
                        /\ call' = [op |-> "train", features_data |-> features_data,
                                    result |-> Returned("None")]
    /\ prev' = NoCall
    /\ UNCHANGED <<logs, response, pc, frame>>
    /\ UNCHANGED <<files, agent, eventlog, posted>>

\* the call record of predict(new_features), run to its end with raw being
\* score_samples of its row
Predicted(new_features, raw) ==
    [op |-> "predict", new_features |-> new_features,
     result |-> predict(detector, heap, new_features, raw)]

\* the heap after predict(new_features)
Scored(new_features, raw) ==
    IF detector.model = 0 THEN heap
    ELSE [heap EXCEPT ![detector.model] =
             Remember(heap[detector.model],
                      FeatureVector(new_features, detector.feature_names), raw)]

\* the values score_samples may give the row of new_features
RawFor(new_features) ==
    IF detector.model = 0 THEN {0}
    ELSE ScoresFor(heap[detector.model],
                   FeatureVector(new_features, detector.feature_names))

Call_predict(new_features) ==
    /\ \E raw \in RawFor(new_features) :
           /\ call' = Predicted(new_features, raw)
           /\ heap' = Scored(new_features, raw)
    /\ prev' = NoCall
    /\ UNCHANGED <<logs, detector, response, pc, frame>>
    /\ UNCHANGED <<files, agent, eventlog, posted>>

\* predict on the dict of the last call with its keys in another order
Call_predict_permuted(p) ==
    /\ call.op = "predict"
    /\ prev = NoCall
    /\ LET new_features == [i \in 1..Len(call.new_features) |-> call.new_features[p[i]]]
       IN  \E raw \in RawFor(new_features) :
               /\ call' = Predicted(new_features, raw)
               /\ heap' = Scored(new_features, raw)
    /\ prev' = call
    /\ UNCHANGED <<logs, detector, response, pc, frame>>
    /\ UNCHANGED <<files, agent, eventlog, posted>>

NextScore ==
    \/ \E features_data \in TrainBatches : Call_train(features_data)
    \/ \E new_features \in ScoreVectors : Call_predict(new_features)
    \/ /\ call.op = "predict"
       /\ \E p \in Permutations(1..Len(call.new_features)) : Call_predict_permuted(p)

SpecScore == InitDetector /\ [][NextScore]_vars

\* --- llm_reporter.generate_incident_report ---------------------------------
\* names a configured rule may have: the keywords in any case, inside a
\* longer word, two in one name, and none
n_admin_shell  == <<"A","D","M","I","N"," ","s","h","e","l","l"," ","o","p","e","n","e","d">>
n_process_tree == <<"S","u","s","p","i","c","i","o","u","s"," ","P","R","O","C","E","S","S"," ","t","r","e","e">>
n_profile_read == <<"P","r","o","f","i","l","e"," ","r","e","a","d">>
n_port_scan    == <<"P","o","r","t"," ","s","c","a","n">>

RuleNames ==
    {n_admin_weekend, n_process_weekend, n_admin_shell, n_process_tree,
     n_profile_read, n_port_scan}

NamedRule(name) ==
    [name |-> name, severity |-> "High", description |-> "a matched rule",
     score |-> SEVERITY_SCORES("High")]

\* the lists of up to MaxMatched matched rules
MatchedLists ==
    UNION { [1..n -> {NamedRule(name) : name \in RuleNames}] : n \in 0..MaxMatched }

\* final risk scores, in 1/200: the ends of the tiers
RiskScores == {0, 6000, 6100, 12000, 16000, 20000}

IncidentData(id, risk_score, matched_rules) ==
    [id |-> id, final_risk_score |-> risk_score, anomaly_score_ml |-> 0,
     is_anomaly_ml |-> FALSE, matched_rules |-> matched_rules,
     is_anomaly_rule |-> matched_rules # <<>>, is_anomaly |-> TRUE,
     processed_at |-> PyDateTime(2024, 1, 10, 12, 0).d]

InitReport ==
    IdleBut({ [op |-> "generate_incident_report",
               incident_data |-> IncidentData(1, risk_score, matched_rules),
               done |-> FALSE, result |-> Pending] :
                 risk_score \in RiskScores, matched_rules \in MatchedLists })

Call_generate_incident_report ==
    /\ call.op = "generate_incident_report"
    /\ ~call.done
    /\ call' = [call EXCEPT !.done = TRUE,
                            !.result = generate_incident_report(call.incident_data)]
    /\ UNCHANGED <<prev, logs, detector, heap, response, pc, frame>>
    /\ UNCHANGED <<files, agent, eventlog, posted>>

NextReport == Call_generate_incident_report

SpecReport == InitReport /\ [][NextReport]_vars

\* --- the ingestion pipeline on weekend logins of admin ----------------------
s_authentication == <<"a","u","t","h","e","n","t","i","c","a","t","i","o","n">>

\* authentication events of user admin on a Saturday and on a Sunday, and two
\* weekday events of other users
EndToEndEntries ==
    { Entry(PyDateTime(2024, 1, 6, 10, 0), s_VPN_gw, s_authentication, User(PyStr(s_admin))),
      Entry(PyDateTime(2024, 1, 7, 23, 30), s_srv_01, s_authentication, User(PyStr(s_admin))),
      Entry(PyDateTime(2024, 1, 9, 9, 0), s_srv_01, s_Authentication, User(PyStr(s_alice))),
      Entry(PyDateTime(2024, 1, 9, 3, 30), s_srv_01, s_process_exec, User(PyStr(s_root_ops))) }

NextEndToEnd ==
    \/ \E log_entry \in EndToEndEntries : ingest_log(log_entry)
    \/ train_model

SpecEndToEnd == Init /\ [][NextEndToEnd]_vars

\* --- the stored rows under every endpoint ----------------------------------
\* GET /logs: every row (their order, by processed_at, is left out)
get_logs ==
    /\ response' = [kind |-> "logs", status |-> 200,
                    logs |-> {logs[i] : i \in 1..Len(logs)}]
    /\ UNCHANGED <<call, prev, logs, detector, heap, pc, frame>>
    /\ UNCHANGED <<files, agent, eventlog, posted>>

\* GET /anomalies: the rows with is_anomaly (their order, by final risk
\* score, is left out) and their number
get_anomalies ==
    /\ response' = [kind |-> "anomalies", status |-> 200,
                    anomalies |-> {logs[i] : i \in {k \in 1..Len(logs) : logs[k].is_anomaly}},
                    count |-> Cardinality({k \in 1..Len(logs) : logs[k].is_anomaly})]
    /\ UNCHANGED <<call, prev, logs, detector, heap, pc, frame>>
    /\ UNCHANGED <<files, agent, eventlog, posted>>

\* an event that is stored, one that is no anomaly, and one that is refused
StoreEntries ==
    { Entry(PyDateTime(2024, 1, 6, 10, 0), s_VPN_gw, s_Authentication, User(PyStr(s_Admin))),
      Entry(PyDateTime(2024, 1, 9, 9, 0), s_srv_01, s_Authentication, User(PyStr(s_alice))),
      Entry(PyDateTime(2024, 1, 9, 9, 0), s_srv_01, s_Authentication, User(PyNone)) }

NextStore ==
    \/ \E log_entry \in StoreEntries : ingest_log(log_entry)
    \/ train_model
    \/ get_logs
    \/ get_anomalies
    \/ get_risk_dashboard_summary
    \/ \E log_id \in 1..(MaxLogs + 1) : get_incident_report(log_id)

SpecStore == Init /\ [][NextStore]_vars

\* --- ingest_log's scoring, lines 111-122, next to train ----------------------
\* what a call of ingest_log holds before it reads the detector
IngestFrame(features) ==
    [op |-> "ingest", features |-> features, X |-> <<>>, anomaly_score |-> 0,
     score_model |-> 0, threshold_model |-> 0, result |-> Pending]

\* line 114: if anomaly_detector.model
Ingest_Call(t, features) ==
    /\ pc[t] = "idle"
    /\ LET truth == ModelTruth(detector, heap)
       IN  IF truth.raised
           THEN /\ pc' = [pc EXCEPT ![t] = "done"]
                /\ frame' = [frame EXCEPT ![t] =
                       [IngestFrame(features) EXCEPT !.result = truth]]
           ELSE IF ~truth.value
           THEN /\ pc' = [pc EXCEPT ![t] = "done"]
                /\ frame' = [frame EXCEPT ![t] =
                       [IngestFrame(features) EXCEPT !.result = Returned(FALSE)]]
           ELSE /\ pc' = [pc EXCEPT ![t] = "ingest_116"]
                /\ frame' = [frame EXCEPT ![t] = IngestFrame(features)]
    /\ UNCHANGED <<call, prev, logs, detector, heap, response>>
    /\ UNCHANGED <<files, agent, eventlog, posted>>

\* line 116, predict lines 63-73: self.model is not None (a model that was
\* set is never unset), then the vector by self.feature_names
Ingest_FeatureVector(t) ==
    /\ pc[t] = "ingest_116"
    /\ frame' = [frame EXCEPT ![t].X =
                    FeatureVector(frame[t].features, detector.feature_names)]
    /\ pc' = [pc EXCEPT ![t] = "ingest_78"]
    /\ UNCHANGED <<call, prev, logs, detector, heap, response>>
    /\ UNCHANGED <<files, agent, eventlog, posted>>

\* line 116, predict line 78: self.model.decision_function(X)[0]
Ingest_DecisionFunction(t) ==
    /\ pc[t] = "ingest_78"
    /\ LET forest == heap[detector.model]
           X      == frame[t].X
       IN  \E raw \in ScoresFor(forest, X) :
             LET score == decision_function(forest, X, raw)
             IN  /\ heap' = [heap EXCEPT ![detector.model] = Remember(forest, X, raw)]
                 /\ IF score.raised
                    THEN /\ frame' = [frame EXCEPT ![t].result = score]
                         /\ pc' = [pc EXCEPT ![t] = "done"]
                    ELSE /\ frame' = [frame EXCEPT ![t].anomaly_score = score.value,
                                                   ![t].score_model = detector.model]
                         /\ pc' = [pc EXCEPT ![t] = "ingest_118"]
    /\ UNCHANGED <<call, prev, logs, detector, response>>
    /\ UNCHANGED <<files, agent, eventlog, posted>>

\* line 118: anomaly_score < anomaly_detector.model.offset_ ; a forest that
\* was not fitted has no offset_
Ingest_Threshold(t) ==
    /\ pc[t] = "ingest_118"
    /\ LET forest == heap[detector.model]
       IN  frame' = [frame EXCEPT
               ![t].threshold_model = detector.model,
               ![t].result = IF ~forest.fitted THEN Raised("AttributeError")
                             ELSE Returned(frame[t].anomaly_score < forest.offset_)]
    /\ pc' = [pc EXCEPT ![t] = "done"]
    /\ UNCHANGED <<call, prev, logs, detector, heap, response>>
    /\ UNCHANGED <<files, agent, eventlog, posted>>

NextIngestRace ==
    \E t \in Threads :
        \/ \E features_data \in TrainBatches \ {<<>>} : Train_Call(t, features_data)
        \/ Train_SetFeatureNames(t)
        \/ Train_NewModel(t)
        \/ Train_Fit(t)
        \/ \E features \in PredictVectors : Ingest_Call(t, features)
        \/ Ingest_FeatureVector(t)
        \/ Ingest_DecisionFunction(t)
        \/ Ingest_Threshold(t)
        \/ Return(t)

SpecIngestRace == InitDetector /\ [][NextIngestRace]_vars

\* --- save_model and load_model, lines 81-97 ----------------------------------
MaxLoads == 1

Filepaths == {"model.joblib"}

\* the batches that fit
FittingBatches == { <<v_weekday, v_night>>, <<v_admin>> }

\* save_model(filepath): joblib.dump of self.model when it is true
Call_save_model(filepath) ==
    /\ LET truth == ModelTruth(detector, heap)
       IN  IF truth.raised
           THEN /\ files' = files
                /\ call' = [op |-> "save_model", filepath |-> filepath, result |-> truth]
           ELSE /\ files' = IF truth.value
                            THEN (filepath :> heap[detector.model]) @@ files
                            ELSE files
                /\ call' = [op |-> "save_model", filepath |-> filepath,
                            result |-> Returned("None")]
    /\ prev' = NoCall
    /\ UNCHANGED <<logs, detector, heap, response, pc, frame, agent, eventlog, posted>>

\* load_model(filepath): self.model = joblib.load(filepath), a new object;
\* FileNotFoundError is caught; self.feature_names is not touched
Call_load_model(filepath) ==
    /\ Len(heap) < MaxModels + MaxLoads
    /\ IF filepath \in DOMAIN files
       THEN /\ heap' = Append(Release(heap), files[filepath])
            /\ detector' = [detector EXCEPT !.model = Len(heap) + 1]
       ELSE UNCHANGED <<detector, heap>>
    /\ call' = [op |-> "load_model", filepath |-> filepath, result |-> Returned("None")]
    /\ prev' = NoCall
    /\ UNCHANGED <<logs, response, pc, frame, files, agent, eventlog, posted>>

NextPersist ==
    \/ \E features_data \in FittingBatches : Call_train(features_data)
    \/ \E filepath \in Filepaths : Call_save_model(filepath)
    \/ \E filepath \in Filepaths : Call_load_model(filepath)
    \/ \E new_features \in ScoreVectors : Call_predict(new_features)

SpecPersist == InitDetector /\ [][NextPersist]_vars

(***************************************************************************)
(* agent.py: the collection agent's polling loop over the Windows event    *)
(* logs.  A log holds the records 1..eventlog[log_name]; posted is what    *)
(* reached requests.post, whether or not the backend took it (an error of  *)
(* the request is caught and printed).                                     *)
(***************************************************************************)
MaxRecords == 2

\* get_event_log_sources()
EventLogSources == <<"Security", "System", "Application">>

persistence_file == "agent_state.json"

\* LAST_EVENT_RECORD_ID.get(log_name, 0)
LastRecordId(ids, log_name) == IF log_name \in DOMAIN ids THEN ids[log_name] ELSE 0

\* the agent before main() runs: LAST_EVENT_RECORD_ID is {}
AgentLoaded(ids) ==
    [pc |-> "start", LAST_EVENT_RECORD_ID |-> ids, source |-> 1,
     last_id_for_source |-> 0, new_events |-> <<>>, current_max_id |-> 0, sent |-> 0]

\* Windows writes one more record to a log
WriteEvent(log_name) ==
    /\ eventlog[log_name] < MaxRecords
    /\ eventlog' = [eventlog EXCEPT ![log_name] = @ + 1]
    /\ UNCHANGED <<call, prev, logs, detector, heap, response, pc, frame,
                   files, agent, posted>>

\* main, lines 122-127: the ids of agent_state.json, if the file exists
Agent_Start ==
    /\ agent.pc = "start"
    /\ agent' = [agent EXCEPT
           !.pc = "read",
           !.LAST_EVENT_RECORD_ID =
               IF persistence_file \in DOMAIN files THEN files[persistence_file] ELSE @]
    /\ UNCHANGED <<call, prev, logs, detector, heap, response, pc, frame,
                   files, eventlog, posted>>

\* the source after this one; after the last, the sleep and the first again
NextSource(a) ==
    [a EXCEPT !.pc = "read", !.new_events = <<>>, !.sent = 0,
              !.source = IF a.source = Len(EventLogSources) THEN 1 ELSE a.source + 1]

\* an agent that takes the record at the checkpoint for new
ReadFromCheckpoint(failed, first, last) ==
    /\ agent.pc = "read"
    /\ LET log_name    == EventLogSources[agent.source]
           last_id     == LastRecordId(agent.LAST_EVENT_RECORD_ID, log_name)
           raw_events  == IF failed THEN <<>> ELSE [i \in 1..(last - first + 1) |-> first + i - 1]
           new_events  == SelectSeq(raw_events, LAMBDA RecordNumber : RecordNumber >= last_id)
           current_max == IF new_events = <<>> THEN last_id ELSE new_events[Len(new_events)]
       IN  /\ IF failed \/ eventlog[log_name] = 0
              THEN first = 1 /\ last = 0
              ELSE 1 <= first /\ first <= last /\ last <= eventlog[log_name]
           /\ agent' = IF new_events = <<>>
                       THEN NextSource([agent EXCEPT !.last_id_for_source = last_id,
                                                     !.current_max_id = current_max])
                       ELSE [agent EXCEPT !.pc = "send", !.last_id_for_source = last_id,
                                          !.new_events = new_events, !.sent = 0,
                                          !.current_max_id = current_max]
    /\ UNCHANGED <<call, prev, logs, detector, heap, response, pc, frame,
                   files, eventlog, posted>>

\* main, lines 131-135 and 149-150, with read_windows_event_logs, lines 32-101:
\* ReadEventLog hands over one run first..last of the log's records, oldest
\* first (none of an empty log); the records above last_record_id are the new
\* events.  failed is an exception inside the read: no events, the id as it was.
Agent_Read(failed, first, last) ==
    /\ agent.pc = "read"
    /\ LET log_name    == EventLogSources[agent.source]
           last_id     == LastRecordId(agent.LAST_EVENT_RECORD_ID, log_name)
           raw_events  == IF failed THEN <<>> ELSE [i \in 1..(last - first + 1) |-> first + i - 1]
           new_events  == SelectSeq(raw_events, LAMBDA RecordNumber : RecordNumber > last_id)
           current_max == IF new_events = <<>> THEN last_id ELSE new_events[Len(new_events)]
       IN  /\ IF failed \/ eventlog[log_name] = 0
              THEN first = 1 /\ last = 0
              ELSE 1 <= first /\ first <= last /\ last <= eventlog[log_name]
           /\ agent' = IF new_events = <<>>
                       THEN NextSource([agent EXCEPT !.last_id_for_source = last_id,
                                                     !.current_max_id = current_max])
                       ELSE [agent EXCEPT !.pc = "send", !.last_id_for_source = last_id,
                                          !.new_events = new_events, !.sent = 0,
                                          !.current_max_id = current_max]
    /\ UNCHANGED <<call, prev, logs, detector, heap, response, pc, frame,
                   files, eventlog, posted>>

\* main, lines 137-139: send_log_to_fastapi(event) for the next event of the batch
Agent_Send ==
    /\ agent.pc = "send"
    /\ agent.sent < Len(agent.new_events)
    /\ posted' = Append(posted, [log_name     |-> EventLogSources[agent.source],
                                 RecordNumber |-> agent.new_events[agent.sent + 1]])
    /\ agent' = [agent EXCEPT !.sent = @ + 1]
    /\ UNCHANGED <<call, prev, logs, detector, heap, response, pc, frame,
                   files, eventlog>>

\* main, lines 142-148, after the for loop: the id is set and the dict is
\* written to agent_state.json
Agent_Advance ==
    /\ agent.pc = "send"
    /\ agent.sent = Len(agent.new_events)
    /\ LET log_name == EventLogSources[agent.source]
           ids      == IF agent.current_max_id > agent.last_id_for_source
                       THEN (log_name :> agent.current_max_id) @@ agent.LAST_EVENT_RECORD_ID
                       ELSE agent.LAST_EVENT_RECORD_ID
       IN  /\ agent' = NextSource([agent EXCEPT !.LAST_EVENT_RECORD_ID = ids])
           /\ files' = IF agent.current_max_id > agent.last_id_for_source
                       THEN (persistence_file :> ids) @@ files
                       ELSE files
    /\ UNCHANGED <<call, prev, logs, detector, heap, response, pc, frame,
                   eventlog, posted>>

\* the agent starts with no state file, or with the one an earlier run left
InitAgent ==
    /\ call = NoCall /\ prev = NoCall
    /\ logs = <<>>
    /\ detector = [model |-> 0, feature_names |-> <<>>]
    /\ heap = <<>>
    /\ response = NoResponse
    /\ pc = [t \in Threads |-> "idle"]
    /\ frame = [t \in Threads |-> NoFrame]
    /\ \/ /\ files = <<>>
          /\ eventlog = [log_name \in {"Security", "System", "Application"} |-> 0]
       \/ /\ files = (persistence_file :> ("Security" :> 1))
          /\ eventlog = [log_name \in {"Security", "System", "Application"} |->
                            IF log_name = "Security" THEN 1 ELSE 0]
    /\ agent = AgentLoaded(<<>>)
    /\ posted = <<>>

NextAgent ==
    \/ \E log_name \in {"Security", "System", "Application"} : WriteEvent(log_name)
    \/ Agent_Start
    \/ \E failed \in BOOLEAN, first \in 1..MaxRecords, last \in 0..MaxRecords :
           Agent_Read(failed, first, last)
    \/ Agent_Send
    \/ Agent_Advance

SpecAgent == InitAgent /\ [][NextAgent]_vars

(***************************************************************************)
(* Properties of the backend (Spec) and of the shared detector             *)
(* (SpecDetector)                                                          *)
(***************************************************************************)
Trained == detector.model # 0 /\ heap[detector.model].fitted

\* The anomaly scores predict gives the rows the forest was fitted on, in 1/10000
TrainingScores(forest) ==
    [i \in 1..Len(forest.rows) |-> 100 * forest.scores[forest.rows[i]] - forest.offset_]

\* The cutoff below which the contamination fraction of the training rows'
\* anomaly scores falls (their percentile), in 1/1000000
ContaminationCutoff(forest) == Percentile(TrainingScores(forest), ContaminationPct)

\* C2: an event scored by a trained model is flagged by the model
\* (is_anomaly_ml) iff its anomaly score is below the decision threshold,
\* the threshold being the cutoff below which the contamination fraction of
\* the training vectors' scores falls.
C2_MLFlagIffBelowContaminationCutoff ==
    (response.kind = "ingest" /\ Trained) =>
        (response.is_anomaly_ml <=>
            100 * response.anomaly_score_ml < ContaminationCutoff(heap[detector.model]))

\* What a finished predict call evaluated is one whole model: a fitted forest,
\* on a vector laid out by the schema that forest was fitted on.
ScoreSeesWholeModel ==
    \A t \in Threads :
        (pc[t] = "done" /\ frame[t].op = "predict" /\ "saw" \in DOMAIN frame[t]) =>
            /\ frame[t].saw.fitted
            /\ frame[t].feature_names = frame[t].saw.columns

\* A forest self.model refers to is no longer fitted or refitted: it keeps its
\* ensemble, schema and threshold for as long as it is published.
PublishedModelNotMutated ==
    detector.model # 0 =>
        LET before == heap[detector.model]
            after  == heap'[detector.model]
        IN  /\ after.fitted = before.fitted
            /\ after.fitted => /\ after.columns = before.columns
                               /\ after.offset_ = before.offset_
                               /\ after.rows = before.rows

\* The schema and the forest are published together: self.feature_names
\* changes only in the step that binds self.model to a fitted forest.
PublishedTogether ==
    detector'.feature_names # detector.feature_names =>
        /\ detector'.model # detector.model
        /\ heap'[detector'.model].fitted
        /\ heap'[detector'.model].columns = detector'.feature_names

\* C3: in every interleaving of a predict call with a train call, predict
\* sees the whole previous model or the whole new one, never a mixture or a
\* forest installed but not fitted; train builds the new model aside and
\* publishes it in one step, without changing a published model in place.
C3_AtomicModelPublication ==
    /\ []ScoreSeesWholeModel
    /\ [][PublishedModelNotMutated /\ PublishedTogether]_vars

NoSuccessfulTrainYet == \A i \in 1..Len(heap) : ~heap[i].fitted

\* C10: before any successful train call every predict call returns the
\* neutral score 0.0 and does not raise, and every event ingested then is
\* stored with anomaly_score_ml = 0.0 and is_anomaly_ml = false.
C10_NeutralBeforeTraining ==
    NoSuccessfulTrainYet =>
        /\ \A t \in Threads :
              (pc[t] = "done" /\ frame[t].op = "predict") =>
                  frame[t].result = Returned(0)
        /\ \A i \in 1..Len(logs) :
              logs[i].anomaly_score_ml = 0 /\ ~logs[i].is_anomaly_ml
        /\ response # InternalServerError

\* C6: the severity label of the report of an event is the tier of its final
\* risk score, [0,30] Low, (30,60] Medium, (60,80] High, (80,100] Critical:
\* the tier under which the dashboard counts the event.
C6_ReportLabelIsDashboardTier ==
    response.kind = "report" =>
        response.report.SeverityLevel
            = DashboardTier(logs[response.log_id].final_risk_score)

SomeRuleHolds(features) ==
    \E k \in 1..Len(DETECTION_RULES) :
        \A c \in 1..Len(DETECTION_RULES[k].conditions) :
            ConditionHolds(features, DETECTION_RULES[k].conditions[c])

\* C7: a stored event's is_anomaly is true iff its ML flag is true or at
\* least one rule matched it; the ML flag of an ingest is true iff the model
\* is trained and the anomaly score is below its stored threshold offset_.
C7_OverallFlagIsMLOrRule ==
    /\ \A i \in 1..Len(logs) :
          /\ logs[i].is_anomaly <=> (logs[i].is_anomaly_ml \/ SomeRuleHolds(logs[i].features))
          /\ logs[i].is_anomaly_rule <=> SomeRuleHolds(logs[i].features)
    /\ response.kind = "ingest" =>
          /\ response.is_anomaly = logs[response.log_id].is_anomaly
          /\ response.is_anomaly_ml <=>
                (Trained /\ response.anomaly_score_ml < heap[detector.model].offset_)

\* C7's cases: the ML flag alone, a rule alone, and neither
C7_Witness_MLAlone ==
    \E i \in 1..Len(logs) :
        logs[i].is_anomaly /\ logs[i].is_anomaly_ml /\ ~SomeRuleHolds(logs[i].features)

C7_Witness ==
    /\ C7_Witness_MLAlone
    /\ \E i \in 1..Len(logs) :
          logs[i].is_anomaly /\ ~logs[i].is_anomaly_ml /\ SomeRuleHolds(logs[i].features)

(***************************************************************************)
(* Properties of the pure functions (SpecExtract, SpecRules, SpecFuse)     *)
(***************************************************************************)
FeatureFields ==
    {"login_hour", "day_of_week", "is_weekend", "time_of_day_sin", "time_of_day_cos",
     "is_admin_account", "failed_login_count_5min", "device_familiarity_score",
     "is_vpn_source", "geo_location_risk_score", "event_type_authentication",
     "event_type_file_access", "event_type_process_exec",
     "event_type_privilege_escalation"}

\* C1: extract_features never raises and returns a vector holding each of
\* the 14 fixed feature fields, for every event record: timestamp absent or
\* unparseable, metadata, metadata.user, source or event_type absent or not
\* of the expected type (null).
C1_ExtractFeaturesTotal ==
    (call.op = "extract_features" /\ call.done) =>
        /\ ~call.result.raised
        /\ {call.result.value[i][1] : i \in 1..Len(call.result.value)} = FeatureFields
        /\ Len(call.result.value) = Cardinality(FeatureFields)

\* The part of C1 the code meets: the records whose metadata is a dict or
\* absent, whose user is a string or absent, and whose source and event_type
\* are strings or absent, whatever their timestamp.
WellTyped(log_entry) ==
    /\ "metadata" \in DOMAIN log_entry =>
          /\ log_entry.metadata.t = "dict"
          /\ "user" \in DOMAIN log_entry.metadata.m => log_entry.metadata.m.user.t = "str"
    /\ "source" \in DOMAIN log_entry => log_entry.source.t = "str"
    /\ "event_type" \in DOMAIN log_entry => log_entry.event_type.t = "str"

ExtractFeaturesTotalOnWellTyped ==
    (call.op = "extract_features" /\ call.done /\ WellTyped(call.log_entry)) =>
        /\ ~call.result.raised
        /\ {call.result.value[i][1] : i \in 1..Len(call.result.value)} = FeatureFields

ScoresOf(matched_rules) == {matched_rules[i].score : i \in 1..Len(matched_rules)}

\* the greatest score among the matched rules, 0 when there is none
Greatest(scores) ==
    IF scores = {} THEN 0 ELSE CHOOSE m \in scores : \A x \in scores : x <= m

Clamp(x, lo, hi) == IF x < lo THEN lo ELSE IF x > hi THEN hi ELSE x

\* C4: calculate_risk_score returns a value in [0,100], for every anomaly
\* score (outside [-0.6,0.6] too) and every list of matched rules (the empty
\* one too), equal to
\*   clamp(0.6*100*(0.6 - clamp(score,-0.6,0.6))/1.2 + 0.4*(greatest rule score), 0, 100):
\* rule scores are not summed.  (Scores are in 1/10000, results in 1/200;
\* both sides are multiplied by 12000.)
C4_RiskScoreFormula ==
    call.op = "calculate_risk_score" =>
        /\ 0 <= call.result /\ call.result <= 100 * 200
        /\ 60 * call.result =
              Clamp(60 * (6000 - Clamp(call.anomaly_score, -6000, 6000))
                      + 4800 * Greatest(ScoresOf(call.matched_rules)),
                    0, 100 * 12000)

\* C4's case: a score beyond the clamp bound and two matched rules whose sum
\* of scores is not their maximum
C4_Witness ==
    /\ call.op = "calculate_risk_score"
    /\ call.anomaly_score > 6000
    /\ Len(call.matched_rules) = 2
    /\ call.matched_rules[1].score = 50 /\ call.matched_rules[2].score = 20
    /\ call.result = 50 * 80

\* C5: with the matched rules the same, a lower anomaly score never gives a
\* lower final risk score; with the anomaly score the same, one more matched
\* rule of a higher severity than all those present never gives a lower final
\* risk score.
C5_FusionMonotonic ==
    (prev.op = "calculate_risk_score" /\ call.op = "calculate_risk_score") =>
        /\ (/\ call.matched_rules = prev.matched_rules
            /\ call.anomaly_score <= prev.anomaly_score)
              => call.result >= prev.result
        /\ (/\ call.anomaly_score = prev.anomaly_score
            /\ Len(call.matched_rules) = Len(prev.matched_rules) + 1
            /\ SubSeq(call.matched_rules, 1, Len(prev.matched_rules)) = prev.matched_rules
            /\ \A x \in ScoresOf(prev.matched_rules) :
                   x < call.matched_rules[Len(call.matched_rules)].score)
              => call.result >= prev.result

\* C5's cases happen one after the other: a call, the same call on a lower
\* score with a higher result, then (C5_Witness) one more rule of a higher
\* severity with a higher result
C5_Witness_LowerScore ==
    /\ prev.op = "calculate_risk_score" /\ call.op = "calculate_risk_score"
    /\ call.matched_rules = prev.matched_rules /\ prev.matched_rules # <<>>
    /\ call.anomaly_score < prev.anomaly_score
    /\ call.result > prev.result

C5_Witness ==
    /\ prev.op = "calculate_risk_score" /\ call.op = "calculate_risk_score"
    /\ call.anomaly_score = prev.anomaly_score
    /\ Len(prev.matched_rules) = 1 /\ Len(call.matched_rules) = 2
    /\ call.matched_rules[1] = prev.matched_rules[1]
    /\ call.matched_rules[2].score > prev.matched_rules[1].score
    /\ call.result > prev.result

\* the field is in the vector with this value
Is(features, field, v) ==
    \E i \in 1..Len(features) : features[i][1] = field /\ features[i][2] = v

\* the field is in the vector with a value outside lo..hi-1
Outside(features, field, lo, hi) ==
    \E i \in 1..Len(features) :
        features[i][1] = field /\ ~(lo <= features[i][2] /\ features[i][2] < hi)

\* the rule is returned, once, with this severity
Gives(result, name, severity) ==
    /\ \E i \in 1..Len(result) : result[i].name = name
    /\ \A i \in 1..Len(result) : result[i].name = name => result[i].severity = severity
    /\ Cardinality({i \in 1..Len(result) : result[i].name = name}) = 1

Absent_(result, name) == \A i \in 1..Len(result) : result[i].name # name

Tabled(result, name, severity, holds) ==
    IF holds THEN Gives(result, name, severity) ELSE Absent_(result, name)

\* C8: apply_rules returns a baseline rule iff its tabled conditions hold,
\* with the tabled severity: Admin Login Outside Business Hours (High) iff
\* admin=1, weekend=0, hour not in [8,18); Admin Login on Weekend (Critical)
\* iff admin=1, weekend=1; Unusual Login Hour (Non-Admin) (Medium) iff
\* admin=0, weekend=0, hour not in [7,20); Process Execution by Admin on
\* Weekend (High) iff admin=1, process-exec=1, weekend=1.  So admin=1 and
\* weekend=1 always gives Admin Login on Weekend, whatever the other fields
\* hold and whether they are there.
C8_BaselineRuleTable ==
    (call.op = "apply_rules" /\ call.done) =>
        LET f == call.features
            r == call.result
        IN  /\ Tabled(r, n_admin_outside_hours, "High",
                      Is(f, "is_admin_account", 1) /\ Is(f, "is_weekend", 0)
                          /\ Outside(f, "login_hour", 8, 18))
            /\ Tabled(r, n_admin_weekend, "Critical",
                      Is(f, "is_admin_account", 1) /\ Is(f, "is_weekend", 1))
            /\ Tabled(r, n_unusual_hour, "Medium",
                      Is(f, "is_admin_account", 0) /\ Is(f, "is_weekend", 0)
                          /\ Outside(f, "login_hour", 7, 20))
            /\ Tabled(r, n_process_weekend, "High",
                      Is(f, "is_admin_account", 1) /\ Is(f, "event_type_process_exec", 1)
                          /\ Is(f, "is_weekend", 1))
            /\ \A i \in 1..Len(r) :
                   r[i].name \in {n_admin_outside_hours, n_admin_weekend,
                                  n_unusual_hour, n_process_weekend}

\* C8's case: an admin weekend vector without login_hour, that executes a
\* process: both weekend rules are returned
C8_Witness ==
    /\ call.op = "apply_rules" /\ call.done
    /\ Is(call.features, "is_admin_account", 1) /\ Is(call.features, "is_weekend", 1)
    /\ Is(call.features, "event_type_process_exec", 1)
    /\ \A i \in 1..Len(call.features) : call.features[i][1] # "login_hour"
    /\ Len(call.result) = 2
    /\ call.result[1].severity = "Critical" /\ call.result[2].severity = "High"

\* what a condition says of a vector: the feature is there, the operator is
\* one of the six, and the relation is true
Says(features, condition) ==
    \E i \in 1..Len(features) :
        /\ features[i][1] = condition.feature
        /\ \/ condition.operator = "=="     /\ features[i][2] = condition.value
           \/ condition.operator = "!="     /\ features[i][2] # condition.value
           \/ condition.operator = ">"      /\ features[i][2] > condition.value
           \/ condition.operator = "<"      /\ features[i][2] < condition.value
           \/ condition.operator = "in"     /\ features[i][2] \in condition.value
           \/ condition.operator = "not_in" /\ features[i][2] \notin condition.value

Evaluated(c) == c.op = "evaluate_rules" /\ c.done

\* C9: a rule matches a vector iff every condition of its list holds, and
\* the order of the conditions does not change the outcome: under every
\* permutation of the conditions (a condition on a missing feature or with an
\* unrecognized operator fails without raising) apply_rules gives the same
\* match result.
C9_MatchIsOrderFreeConjunction ==
    /\ Evaluated(call) =>
          (call.result # <<>>) <=>
              \A i \in 1..Len(call.conditions) :
                  Says(call.features, ConditionPool[call.conditions[i]])
    /\ (Evaluated(call) /\ Evaluated(prev)
          /\ call.features = prev.features
          /\ Len(call.conditions) = Len(prev.conditions)
          /\ {call.conditions[i] : i \in 1..Len(call.conditions)}
               = {prev.conditions[i] : i \in 1..Len(prev.conditions)})
        => call.result = prev.result

\* C9's cases: the same conditions in two orders, one order starting with a
\* condition that holds and the other with the unrecognized operator or the
\* missing feature
C9_Witness ==
    /\ Evaluated(call) /\ Evaluated(prev)
    /\ Len(call.conditions) = 3
    /\ call.conditions # prev.conditions
    /\ Says(prev.features, ConditionPool[prev.conditions[1]])
    /\ ConditionPool[call.conditions[1]].operator = ">="
    /\ \E i \in 1..3 : ConditionPool[call.conditions[i]].feature = "no_such_feature"
    /\ call.result = <<>>

\* a rule of three conditions that matches in two orders
C9_Witness_Match ==
    /\ Evaluated(call) /\ Evaluated(prev)
    /\ Len(call.conditions) = 3
    /\ call.conditions # prev.conditions
    /\ call.result # <<>> /\ prev.result # <<>>

(***************************************************************************)
(* Properties of training, scoring and reporting                           *)
(***************************************************************************)
EmptyTrainDone(t) ==
    pc[t] = "done" /\ frame[t].op = "train" /\ frame[t].features_data = <<>>

\* the step in which thread t calls train on an empty sequence
EmptyTrainStep(t) ==
    /\ pc[t] = "idle" /\ pc'[t] = "done"
    /\ frame'[t].op = "train" /\ frame'[t].features_data = <<>>

\* C11: train on an empty sequence reports an InsufficientDataError to its
\* caller, and leaves the detector's model, schema and threshold as they
\* were, so that later score calls return what they returned before.
C11_EmptyTrainReportsError ==
    /\ [](\A t \in Threads : EmptyTrainDone(t) => frame[t].result.raised)
    /\ [][\A t \in Threads : EmptyTrainStep(t) => UNCHANGED <<detector, heap>>]_vars

\* no train call is between its first write to the detector and the end of fit
NoTrainRunning == \A t \in Threads : pc[t] \notin {"train_38", "train_41", "train_48"}

FailedTrainDone(t) ==
    pc[t] = "done" /\ frame[t].op = "train" /\ frame[t].result.raised

\* the detector is untrained, or holds a fitted forest with that forest's schema
WholeDetector ==
    \/ detector.model = 0 /\ detector.feature_names = <<>>
    \/ /\ detector.model # 0
       /\ heap[detector.model].fitted
       /\ heap[detector.model].columns = detector.feature_names

\* C12: a train call whose fit step raises does not corrupt the shared
\* detector: once it has failed (and no other train call is running) the
\* detector is as before the call, untrained or holding the prior trained
\* model with its schema, so that score and ingest calls do not fail because
\* of the failed training.
C12_FailedTrainLeavesDetectorWhole ==
    ((\E t \in Threads : FailedTrainDone(t)) /\ NoTrainRunning) => WholeDetector

\* thread t has finished a train call that trained
TrainedDone(t) ==
    /\ pc[t] = "done" /\ frame[t].op = "train"
    /\ frame[t].features_data # <<>> /\ ~frame[t].result.raised

\* the model in place is what the train call of thread t builds: schema,
\* ensemble (the rows it was fitted on) and threshold
ResultOf(t) ==
    LET df     == DataFrame(frame[t].features_data)
        forest == heap[detector.model]
    IN  /\ detector.feature_names = df.columns
        /\ forest.fitted
        /\ forest.columns = df.columns
        /\ forest.rows = df.rows
        /\ forest.offset_ =
              Percentile([i \in 1..Len(df.rows) |-> forest.scores[df.rows[i]]],
                         ContaminationPct)

\* C13: when train calls run concurrently, the model in place once all have
\* finished is the whole result of one of them: its ensemble, its schema and
\* its threshold come from the same call, never the schema of one call with
\* the ensemble of another.
C13_ConcurrentTrainsOneWinner ==
    (\A t \in Threads : TrainedDone(t)) =>
        /\ detector.model # 0
        /\ \E t \in Threads : ResultOf(t)

\* the value the input vector gives a schema field, 0 when it has none
ValueOf(new_features, field) ==
    IF \E i \in 1..Len(new_features) : new_features[i][1] = field
    THEN new_features[CHOOSE i \in 1..Len(new_features) : new_features[i][1] = field][2]
    ELSE 0

Aligned(new_features, schema) ==
    [j \in 1..Len(schema) |-> ValueOf(new_features, schema[j])]

Pairs(new_features) == {new_features[i] : i \in 1..Len(new_features)}

\* C14: after a successful train, a score call evaluates the model on the
\* stored schema fields in the stored order: a schema field the input vector
\* lacks counts as 0, fields outside the schema are ignored, and the score
\* does not depend on the key order of the input vector.
C14_ScoreOnStoredSchema ==
    (call.op = "predict" /\ Trained) =>
        LET forest == heap[detector.model]
            X      == Aligned(call.new_features, forest.columns)
        IN  /\ detector.feature_names = forest.columns
            /\ X \in DOMAIN forest.scores
            /\ call.result = Returned(100 * forest.scores[X] - forest.offset_)
            /\ (prev.op = "predict" /\ Pairs(prev.new_features) = Pairs(call.new_features))
                  => call.result = prev.result

\* C14's case: a model trained on (is_weekend, login_hour, is_admin_account)
\* scores a vector that lacks two of them and has a field outside the schema,
\* in both orders of its keys
C14_Witness ==
    /\ call.op = "predict" /\ prev.op = "predict" /\ Trained
    /\ heap[detector.model].columns = <<"is_weekend", "login_hour", "is_admin_account">>
    /\ prev.new_features = v_vpn
    /\ call.new_features = <<v_vpn[2], v_vpn[1]>>
    /\ ~call.result.raised
    /\ <<0, 9, 0>> \in DOMAIN heap[detector.model].scores

\* a report in hand is the report of a stored event flagged as an anomaly
ReportOnlyForAnomalies ==
    response.kind = "report" =>
        /\ response.log_id \in 1..Len(logs)
        /\ logs[response.log_id].is_anomaly
        /\ response.report.IncidentID = logs[response.log_id].id

\* what a report request for log_id answers
ReportRequestAnswer(log_id) ==
    IF log_id \notin 1..Len(logs)
    THEN response'.kind = "error" /\ response'.status = 404
    ELSE IF ~logs[log_id].is_anomaly
    THEN response'.kind = "error" /\ response'.status = 400
    ELSE response'.kind = "report" /\ response'.log_id = log_id

\* C15: report generation for an event whose anomaly flag is false fails
\* with a caller-visible precondition error and gives no report, report
\* generation for a log id that does not exist fails with a caller-visible
\* error, and a report is produced only for stored events with is_anomaly
\* true.
C15_ReportPrecondition ==
    /\ []ReportOnlyForAnomalies
    /\ [][\A log_id \in 1..(MaxLogs + 1) :
             get_incident_report(log_id) => ReportRequestAnswer(log_id)]_vars

\* C15's case: a stored event that is no anomaly was asked a report for, and
\* the answer is the precondition error
C15_Witness ==
    /\ response.kind = "error" /\ response.status = 400
    /\ \E i \in 1..Len(logs) : ~logs[i].is_anomaly
    /\ \E i \in 1..Len(logs) : logs[i].is_anomaly

\* C16: the report of a stored anomalous event names that event's own source
\* and event type in its Summary, and its 'Affected Systems/Sources' is the
\* event's source, for every stored event whose source and event type are
\* not empty.
C16_ReportNamesSourceAndEventType ==
    (/\ response.kind = "report"
     /\ logs[response.log_id].raw_source # <<>>
     /\ logs[response.log_id].raw_event_type # <<>>) =>
        /\ response.report.Summary.source = logs[response.log_id].raw_source
        /\ response.report.Summary.event_type = logs[response.log_id].raw_event_type
        /\ response.report.AffectedSystems = logs[response.log_id].raw_source

\* the word occurs in the name, letter case aside
InName(name, word) ==
    \E k \in 0..(Len(name) - Len(word)) :
        \A j \in 1..Len(word) : LowerChar(name[k + j]) = word[j]

Mentions(matched_rules, word) ==
    \E i \in 1..Len(matched_rules) : InName(matched_rules[i].name, word)

\* C17: the report's 'Possible Attack Type' comes from a case-insensitive
\* keyword match on the matched rules' names: privilege misuse when some
\* name contains 'admin', else execution attempt when some name contains
\* 'process', else data exfiltration / unauthorized access when some name
\* contains 'file', else (also when no rule matched) 'Unusual Activity'.
C17_AttackTypeByKeyword ==
    (call.op = "generate_incident_report" /\ call.done) =>
        LET matched_rules == call.incident_data.matched_rules
        IN  call.result.PossibleAttackType =
               IF Mentions(matched_rules, <<"a","d","m","i","n">>)
               THEN "Privilege Misuse / Unauthorized Access"
               ELSE IF Mentions(matched_rules, <<"p","r","o","c","e","s","s">>)
               THEN "Execution Attempt"
               ELSE IF Mentions(matched_rules, <<"f","i","l","e">>)
               THEN "Data Exfiltration / Unauthorized Access"
               ELSE "Unusual Activity"

\* C17's case: a rule named with 'file' before one named with 'PROCESS' and
\* 'ADMIN' in capitals: the admin keyword wins
C17_Witness ==
    /\ call.op = "generate_incident_report" /\ call.done
    /\ Len(call.incident_data.matched_rules) = 2
    /\ call.incident_data.matched_rules[1].name = n_profile_read
    /\ call.incident_data.matched_rules[2].name = n_admin_shell
    /\ call.result.PossibleAttackType = "Privilege Misuse / Unauthorized Access"

\* a list with a 'file' and a 'PROCESS' name gives the execution attempt
C17_Witness_Process ==
    /\ call.op = "generate_incident_report" /\ call.done
    /\ Len(call.incident_data.matched_rules) = 2
    /\ call.incident_data.matched_rules[1].name = n_profile_read
    /\ call.incident_data.matched_rules[2].name = n_process_tree
    /\ call.result.PossibleAttackType = "Execution Attempt"

\* the stored event is an authentication event of user admin on a Saturday
\* or a Sunday
AdminWeekendLogin(row) ==
    /\ row.raw_event_type = <<"a","u","t","h","e","n","t","i","c","a","t","i","o","n">>
    /\ "user" \in DOMAIN row.raw_metadata
    /\ row.raw_metadata.user = PyStr(<<"a","d","m","i","n">>)
    /\ Weekday(row.raw_timestamp) \in {5, 6}

TierRank(tier) ==
    CASE tier = "Low" -> 1 [] tier = "Medium" -> 2 [] tier = "High" -> 3
      [] tier = "Critical" -> 4 [] OTHER -> 0

\* C18: end to end, an authentication event of user admin with a timestamp on
\* a Saturday or Sunday, whatever the state of the model (untrained, or
\* trained on any data), has the features is_admin_account = 1 and
\* is_weekend = 1, is matched by 'Admin Login on Weekend' with severity
\* Critical and score 100, has a final risk score of at least 40, of tier
\* Medium at least, and is_anomaly true.
C18_AdminWeekendEndToEnd ==
    \A i \in 1..Len(logs) :
        AdminWeekendLogin(logs[i]) =>
            /\ Is(logs[i].features, "is_admin_account", 1)
            /\ Is(logs[i].features, "is_weekend", 1)
            /\ \E k \in 1..Len(logs[i].matched_rules) :
                   /\ logs[i].matched_rules[k].name = n_admin_weekend
                   /\ logs[i].matched_rules[k].severity = "Critical"
                   /\ logs[i].matched_rules[k].score = 100
            /\ logs[i].final_risk_score >= 40 * 200
            /\ TierRank(DashboardTier(logs[i].final_risk_score)) >= TierRank("Medium")
            /\ logs[i].is_anomaly

\* C18's case: the Sunday login ingested by a trained model that gave it a
\* score above 0, and the same kind of login ingested before any training
C18_Witness ==
    /\ Len(logs) = 2
    /\ AdminWeekendLogin(logs[1]) /\ AdminWeekendLogin(logs[2])
    /\ logs[1].anomaly_score_ml = 0
    /\ logs[2].anomaly_score_ml > 0
    /\ logs[2].raw_timestamp.day = 7
    /\ Trained

\* a step keeps every stored event as it is, and adds at most one
RowsKept ==
    /\ Len(logs') \in {Len(logs), Len(logs) + 1}
    /\ \A i \in 1..Len(logs) : logs'[i] = logs[i]

\* a step adds a stored event iff it is an ingest that succeeds, and the
\* event it adds is the one the ingest answers with, under an id no other
\* stored event has
OnePerIngest ==
    /\ (\E log_entry \in StoreEntries : ingest_log(log_entry))
          => (response'.kind = "ingest" <=> Len(logs') = Len(logs) + 1)
    /\ Len(logs') = Len(logs) + 1 =>
          /\ \E log_entry \in StoreEntries : ingest_log(log_entry)
          /\ response'.log_id = logs'[Len(logs')].id
          /\ response'.final_risk_score = logs'[Len(logs')].final_risk_score
          /\ \A i \in 1..Len(logs) : logs[i].id # logs'[Len(logs')].id

\* C19: each successful ingest_log call creates exactly one stored scored
\* event, and no later operation (ingests, train-model, logs, anomalies,
\* dashboard summary, report generation) changes or removes a stored event:
\* its features, anomaly score, flags, matched rules and final risk score
\* stay as computed at ingestion, also after the model is trained anew.
C19_StoredEventsImmutable == [][RowsKept /\ OnePerIngest]_vars

\* C19's case: an event stored before the training with the neutral score,
\* an event scored by the model after it, and both listed afterwards
C19_Witness ==
    /\ Len(logs) = 2 /\ Trained
    /\ logs[1].anomaly_score_ml = 0 /\ ~logs[1].is_anomaly_ml
    /\ logs[2].anomaly_score_ml # 0
    /\ response.kind = "logs"
    /\ response.logs = {logs[1], logs[2]}

\* the time features of feature vector f are those of the datetime d
TimeFeaturesOf(f, d) ==
    /\ Get(f, "login_hour", -1) = d.hour
    /\ Get(f, "day_of_week", -1) = Weekday(d)
    /\ Get(f, "is_weekend", -1) = (IF Weekday(d) >= 5 THEN 1 ELSE 0)
    /\ Get(f, "time_of_day_sin", -1) = time_of_day_sin(d.hour, d.minute)
    /\ Get(f, "time_of_day_cos", -1) = time_of_day_cos(d.hour, d.minute)

\* the timestamp of the record is no datetime and no string that parses
Unresolved(log_entry) ==
    LET given == MapGet(log_entry, "timestamp", Absent)
    IN  /\ given.t # "datetime"
        /\ given.t = "str" => ~fromisoformat(given.s).ok

\* C20: whenever the event's timestamp is not an already-structured
\* timestamp and cannot be parsed as an ISO-8601 string, extract_features
\* substitutes its invocation time and derives hour, weekday, weekend flag
\* and the cyclic sine/cosine pair from that time.
C20_FallbackToInvocationTime ==
    (/\ call.op = "extract_features" /\ call.done
     /\ ~call.result.raised
     /\ Unresolved(call.log_entry))
        => TimeFeaturesOf(call.result.value, call.now.d)

\* The part of C20 the code meets: a timestamp that is a string and does
\* not parse is replaced by the invocation time.
UnparsedStringUsesInvocationTime ==
    (/\ call.op = "extract_features" /\ call.done
     /\ ~call.result.raised
     /\ Unresolved(call.log_entry)
     /\ MapGet(call.log_entry, "timestamp", Absent).t = "str")
        => TimeFeaturesOf(call.result.value, call.now.d)

\* a string timestamp that did not parse, with the features returned
UnparsedStringDone ==
    /\ call.op = "extract_features" /\ call.done /\ ~call.result.raised
    /\ MapGet(call.log_entry, "timestamp", Absent) = PyStr(s_iso_month13)

(***************************************************************************)
(* Properties of features, persistence, rules, fusion and the agent        *)
(***************************************************************************)
\* prev and call are two extractions that returned a vector
TwoExtractions ==
    /\ prev # NoCall /\ prev.op = "extract_features" /\ call.op = "extract_features"
    /\ prev.done /\ call.done
    /\ ~prev.result.raised /\ ~call.result.raised

TimestampOf(c) == MapGet(c.log_entry, "timestamp", Absent)

\* the hour and minute a timestamp value carries, when it carries one
Carries(ts) ==
    \/ ts.t = "datetime"
    \/ ts.t = "str" /\ fromisoformat(ts.s).ok

HourMinute(ts) ==
    LET d == IF ts.t = "datetime" THEN ts.d ELSE fromisoformat(ts.s).d
    IN  <<d.hour, d.minute>>

TimeFields == {"login_hour", "day_of_week", "is_weekend", "time_of_day_sin", "time_of_day_cos"}

SameOn(fields, f, g) == \A k \in fields : Get(f, k, -1) = Get(g, k, -1)

\* two extractions of the same timestamp value return the same time features
SameTimestampSameFeatures ==
    (TwoExtractions /\ TimestampOf(prev) = TimestampOf(call))
        => SameOn(TimeFields, prev.result.value, call.result.value)

\* two events at the same hour and minute get the same cyclic pair
SameHourMinuteSameCycle ==
    (/\ TwoExtractions
     /\ Carries(TimestampOf(prev)) /\ Carries(TimestampOf(call))
     /\ HourMinute(TimestampOf(prev)) = HourMinute(TimestampOf(call)))
        => SameOn({"time_of_day_sin", "time_of_day_cos"},
                  prev.result.value, call.result.value)

\* C21: the temporal features returned by extract_features are reproducible
\* from the event alone: two extractions of events carrying the same
\* timestamp value, performed at different wall-clock times, return identical
\* login_hour, day_of_week, is_weekend, time_of_day_sin and time_of_day_cos,
\* and two events at the same hour and minute get identical cyclic values.
C21_TimeFeaturesFromEventAlone ==
    SameTimestampSameFeatures /\ SameHourMinuteSameCycle

\* The part of C21 the code meets: the timestamps that are a datetime or a
\* string that parses.
ReproducibleWhenCarried ==
    /\ (Carries(TimestampOf(call)) => SameTimestampSameFeatures)
    /\ SameHourMinuteSameCycle

\* two events on different days at 10:00, both extracted
SameHourOtherDayDone ==
    /\ TwoExtractions
    /\ TimestampOf(prev) = PyStr(s_iso_saturday)
    /\ TimestampOf(call) = PyDateTime(2024, 1, 9, 10, 0)

\* C22: in every feature vector returned by extract_features, is_weekend is
\* 1 iff day_of_week is at least 5, login_hour is in 0..23, day_of_week is in
\* 0..6, and the reserved placeholder fields failed_login_count_5min and
\* device_familiarity_score are 0.
C22_FeatureRanges ==
    (call.op = "extract_features" /\ call.done /\ ~call.result.raised) =>
        LET f == call.result.value
        IN  /\ Get(f, "is_weekend", -1) \in {0, 1}
            /\ Get(f, "is_weekend", -1) = 1 <=> Get(f, "day_of_week", -1) >= 5
            /\ Get(f, "login_hour", -1) \in 0..23
            /\ Get(f, "day_of_week", -1) \in 0..6
            /\ Get(f, "failed_login_count_5min", -1) = 0
            /\ Get(f, "device_familiarity_score", -1) = 0

\* C22's case: a Saturday event, extracted with the weekend flag set
C22_Witness ==
    /\ call.op = "extract_features" /\ call.done /\ ~call.result.raised
    /\ TimestampOf(call) = PyStr(s_iso_saturday)
    /\ Get(call.result.value, "day_of_week", -1) = 5
    /\ Get(call.result.value, "is_weekend", -1) = 1
    /\ Get(call.result.value, "login_hour", -1) = 10

\* an ingest_log call of thread t that got its score and went on to the
\* threshold
IngestCompared(t) ==
    /\ frame[t].op = "ingest" /\ pc[t] = "done"
    /\ frame[t].score_model # 0

\* C23: while an ingest_log call runs concurrently with a train-model call,
\* the anomaly score and the decision threshold that ingest_log compares to
\* set is_anomaly_ml come from the same trained model: the model is never
\* replaced between computing the score and reading the threshold.
C23_ScoreAndThresholdOfOneModel ==
    \A t \in Threads :
        IngestCompared(t) =>
            /\ ~frame[t].result.raised
            /\ frame[t].threshold_model = frame[t].score_model

\* an ingest_log call that compared score and threshold of one model while
\* another thread was inside train
IngestNextToTrain ==
    \E t, u \in Threads :
        /\ IngestCompared(t) /\ ~frame[t].result.raised
        /\ frame[t].threshold_model = frame[t].score_model
        /\ pc[u] \in {"train_38", "train_41", "train_48"}

\* C24: after any sequence of train, save_model and load_model calls on an
\* AnomalyDetector, whenever a model is installed the stored feature_names
\* list is the schema that model was fitted on (same fields, same order, same
\* length), so predict always passes the model a vector of the width it was
\* fitted with.
C24_SchemaOfInstalledModel ==
    /\ detector.model # 0 =>
          /\ heap[detector.model].fitted
          /\ heap[detector.model].columns = detector.feature_names
    /\ call.op = "predict" => ~call.result.raised

\* The part of C24 the code meets: the model a train call installed and
\* fitted comes with its schema.
SchemaAfterTrain ==
    (detector.model # 0 /\ call.op = "train") =>
          /\ heap[detector.model].fitted
          /\ heap[detector.model].columns = detector.feature_names

\* a model saved and still installed with its schema
SavedWithSchema ==
    /\ call.op = "save_model" /\ ~call.result.raised
    /\ "model.joblib" \in DOMAIN files
    /\ files["model.joblib"].columns = detector.feature_names

\* the places of the rules named name among the matched rules r
Places(r, name) == {i \in 1..Len(r) : r[i].name = name}

\* the place of the rule named name in the configuration
ConfiguredAt(name) == CHOOSE k \in 1..Len(DETECTION_RULES) : DETECTION_RULES[k].name = name

\* C25: for every feature vector, 'Admin Login Outside Business Hours',
\* 'Admin Login on Weekend' and 'Unusual Login Hour (Non-Admin)' are pairwise
\* mutually exclusive, and 'Process Execution by Admin on Weekend' matches
\* only when 'Admin Login on Weekend' also matches; hence apply_rules returns
\* at most two rules, each rule at most once and in configuration order, and
\* whenever it returns two the maximum rule score is 100.
C25_BaselineRulesOverlap ==
    (call.op = "apply_rules" /\ call.done) =>
        LET r == call.result
        IN  /\ Cardinality(Places(r, n_admin_outside_hours) \cup Places(r, n_admin_weekend)
                             \cup Places(r, n_unusual_hour)) <= 1
            /\ Places(r, n_process_weekend) # {} => Places(r, n_admin_weekend) # {}
            /\ Len(r) <= 2
            /\ \A i, j \in 1..Len(r) :
                   i < j => ConfiguredAt(r[i].name) < ConfiguredAt(r[j].name)
            /\ Len(r) = 2 => MaxScore(r) = 100

\* C25's case: the two weekend rules returned together, Critical first, for
\* a vector that has every field
C25_Witness ==
    /\ call.op = "apply_rules" /\ call.done
    /\ Len(call.features) = Len(DEFAULT_FEATURES)
    /\ Len(call.result) = 2
    /\ call.result[1].name = n_admin_weekend
    /\ call.result[2].name = n_process_weekend
    /\ MaxScore(call.result) = 100

\* 12000 times the weighted sum of line 90, before the clamp of line 93
WeightedSum(c) ==
    60 * (6000 - Clamp(c.anomaly_score, -6000, 6000))
        + 4800 * Greatest(ScoresOf(c.matched_rules))

\* C26: with rule scores taken from the severity table (20, 50, 80, 100), the
\* weighted sum in calculate_risk_score never leaves [0,100], so the final
\* clamp never changes the value; with no matched rule the final risk score
\* is at most 60, so an event flagged by the anomaly model alone is never in
\* the High or Critical tier, and an event ingested before training (anomaly
\* score 0.0) with no matched rule gets exactly 30 (Low).
C26_ClampIsIdle ==
    (/\ call.op = "calculate_risk_score"
     /\ ScoresOf(call.matched_rules) \subseteq {20, 50, 80, 100}) =>
        /\ 0 <= WeightedSum(call) /\ WeightedSum(call) <= 100 * 12000
        /\ 60 * call.result = WeightedSum(call)
        /\ call.matched_rules = <<>> =>
              /\ call.result <= 60 * 200
              /\ DashboardTier(call.result) \in {"Low", "Medium"}
        /\ (call.matched_rules = <<>> /\ call.anomaly_score = 0) =>
              /\ call.result = 30 * 200
              /\ DashboardTier(call.result) = "Low"

\* C26's case: the two ends of the scale, a score below the clamp bound with
\* a Critical rule (100, the sum itself) after the same score with no rule (60)
C26_Witness ==
    /\ prev.op = "calculate_risk_score" /\ call.op = "calculate_risk_score"
    /\ prev.anomaly_score = -10000 /\ prev.matched_rules = <<>>
    /\ prev.result = 60 * 200
    /\ call.anomaly_score = -10000
    /\ Greatest(ScoresOf(call.matched_rules)) = 100
    /\ call.result = 100 * 200

\* the neutral score with no rule: 30
NeutralScored ==
    /\ call.op = "calculate_risk_score"
    /\ call.anomaly_score = 0 /\ call.matched_rules = <<>>
    /\ call.result = 30 * 200

LogNames == {EventLogSources[i] : i \in 1..Len(EventLogSources)}

\* the checkpoint of a log source, in memory and in agent_state.json
Checkpoint(log_name) == LastRecordId(agent.LAST_EVENT_RECORD_ID, log_name)

Persisted(log_name) ==
    IF persistence_file \in DOMAIN files
    THEN LastRecordId(files[persistence_file], log_name) ELSE 0

Posted(log_name, RecordNumber) ==
    {i \in 1..Len(posted) : posted[i] = [log_name |-> log_name, RecordNumber |-> RecordNumber]}

\* no event record was submitted twice
AtMostOnce ==
    \A log_name \in LogNames : \A RecordNumber \in 1..(MaxRecords + 1) :
        Cardinality(Posted(log_name, RecordNumber)) <= 1

\* a step never lowers a checkpoint; it raises one only when every event of
\* the batch was submitted, to the greatest record of the batch, and writes
\* it to the file in the same step
CheckpointStep ==
    \A log_name \in LogNames :
        /\ Checkpoint(log_name)' >= Checkpoint(log_name)
        /\ Persisted(log_name)' >= Persisted(log_name)
        /\ (agent.pc # "start" /\ Checkpoint(log_name)' # Checkpoint(log_name)) =>
              /\ agent.pc = "send" /\ log_name = EventLogSources[agent.source]
              /\ agent.new_events # <<>>
              /\ \A i \in 1..Len(agent.new_events) :
                     Posted(log_name, agent.new_events[i]) # {}
              /\ Checkpoint(log_name)' = agent.new_events[Len(agent.new_events)]
              /\ Persisted(log_name)' = Checkpoint(log_name)'

\* a step that submits an event submits one above the checkpoint of its source
SubmitStep ==
    posted' # posted =>
        /\ Len(posted') = Len(posted) + 1
        /\ posted'[Len(posted')].RecordNumber > Checkpoint(posted'[Len(posted')].log_name)

\* C27: in the collection agent's polling loop, the checkpoint
\* LAST_EVENT_RECORD_ID of each log source never decreases, it is advanced
\* and persisted only after every new event of the batch has been submitted
\* to the backend, and an event whose record number is at or below the
\* checkpoint is never submitted again, so across any number of polling
\* iterations each event record is submitted at most once.
C27_CheckpointedSubmission ==
    /\ []AtMostOnce
    /\ [][CheckpointStep /\ SubmitStep]_vars

\* C27's case: the agent started from a state file with Security at 1, a
\* second Security record was written, submitted alone, and the checkpoint
\* was advanced to 2 in memory and in the file; polling goes on
C27_Witness ==
    /\ Checkpoint("Security") = 2 /\ Persisted("Security") = 2
    /\ Posted("Security", 2) # {} /\ Posted("Security", 1) = {}
    /\ Len(posted) >= 2
    /\ agent.pc = "read"

====
